---- MODULE Spec2Model ----
(***************************************************************************)
(* Model of headjack's credential subsystem, name generator and session    *)
(* multiplexer.                                                            *)
(*                                                                         *)
(*   internal/keychain : the secret store (keyringStore) over a keyring    *)
(*                       backend, its construction (NewWithConfig,         *)
(*                       detectBackend, openKeyring) and the password      *)
(*                       resolution of the encrypted-file backend;         *)
(*   internal/auth     : the providers (validation, harvest of the CLIs'   *)
(*                       credential files, Store and Load), the string     *)
(*                       functions and the prompter;                       *)
(*   internal/names    : GenerateUnique;                                   *)
(*   internal/mux      : zellij's CreateSession and ListSessions.          *)
(*                                                                         *)
(* The keyring backend itself (github.com/99designs/keyring) is the        *)
(* environment of the store: it is modelled by its interface contract      *)
(* (Set stores an item under its key, Get returns it or ErrKeyNotFound,    *)
(* Remove deletes it) and every call on it may also fail.                  *)
(*                                                                         *)
(* Specifications:                                                         *)
(*   Spec          - an opened store and the operations Set / Get / Delete;*)
(*   SpecNew       - construction of a store and the file backend's        *)
(*                   password request;                                     *)
(*   SpecFile      - a file-backed store, its operations and its password; *)
(*   SpecText      - stripANSI and extractToken;                           *)
(*   SpecValidate  - the providers' validators;                            *)
(*   SpecHarvest   - the providers' CheckSubscription;                     *)
(*   SpecProviders - the providers' Store and Load on one store;           *)
(*   SpecPrompt    - PromptChoice;                                         *)
(*   SpecNames     - GenerateUnique (SpecNamesFair: with a fair loop);     *)
(*   SpecMux       - CreateSession.                                        *)
(***************************************************************************)
EXTENDS Integers, Sequences, FiniteSets, TLC

VARIABLES
    pc,                 \* "init" before construction, "open" once a store exists,
                        \* "failed" when construction returned an error, "asked"
                        \* after the file backend asked for its password
    env,                \* process environment read by the code
    cfg,                \* keychain.Config handed to NewWithConfig
    detected,           \* result of detectBackend(), NotCalled if it did not run
    backend,            \* the backend NewWithConfig settled on
    config,             \* keyring.Config built by openKeyring
    openAttempts,       \* AllowedBackends of every keyring.Open call, in order
    newErr,             \* error returned by NewWithConfig
    pwCall,             \* what the last FilePasswordFunc call did and returned
    overwritesAtomically, \* whether the backend can replace an entry in one step
    ring,               \* items held by the backend
    lastOp,             \* the last store operation and its arguments
    res,                \* what that operation returned
    ringCalls,          \* backend calls made by that operation, in order
    ringErr,            \* error returned by the backend to that operation
    expect,             \* history: per account, the last successful Set / Delete
    fs,                 \* the agent CLIs' credential files under the home directory
    authIn,             \* argument of the last auth call
    authCall,           \* the last call on a provider or on the prompter
    authRet,            \* what that call returned
    form,               \* the prompt shown to the user and what the user did
    gen,                \* a GenerateUnique call: its arguments, its loop and its result
    lastStored          \* history: per provider, the credential of its last successful
                        \* Store, forgotten when an entry is deleted

newVars   == <<env, cfg, detected, config, openAttempts, newErr, pwCall>>
storeVars == <<overwritesAtomically, ring, lastOp, res, ringCalls, ringErr, expect>>
authVars  == <<fs, authIn, authCall, authRet, form, gen, lastStored>>
vars      == <<pc, backend, newVars, storeVars, authVars>>

----------------------------------------------------------------------------
(* Bounds *)

MaxSecretLen == 2

----------------------------------------------------------------------------
(* Errors.  An error value is its wrap chain, outermost first; nil is the  *)
(* empty chain.                                                            *)

Nil == <<>>

ErrNotFound == <<"keychain.ErrNotFound">>

ErrNoPassword == <<"keychain.ErrNoPassword">>

ErrKeyNotFound == <<"keyring.ErrKeyNotFound">>

\* what a backend reports for a key it does not hold
WrappedKeyNotFound == <<"fmt.wrapError">> \o ErrKeyNotFound

PathErrorNotExist == <<"fs.PathError", "ENOENT">>

\* failures of the backend itself
PathErrorAccess == <<"fs.PathError", "EACCES">>

BackendUnavailable == <<"backend unavailable">>

FaultErrors == {PathErrorAccess, BackendUnavailable}

\* errors.Is(err, target) for a sentinel target: walks the whole chain
errorsIs(err, target) ==
    \E i \in 1..Len(err) : <<err[i]>> = target

\* os.IsNotExist(err): strips one PathError / LinkError / SyscallError layer,
\* then compares with the not-exist errno; other wrappers are not looked through
osIsNotExist(err) ==
    LET underlying ==
            IF err # Nil /\ err[1] \in {"fs.PathError", "os.LinkError", "os.SyscallError"}
            THEN Tail(err) ELSE err
    IN  underlying # Nil /\ underlying[1] \in {"ENOENT", "fs.ErrNotExist"}

----------------------------------------------------------------------------
(* Accounts and secrets *)

\* the account names the providers store under
Accounts == {"claude-credential", "gemini-credential", "codex-credential"}

SecretBytes == {97}

RECURSIVE SeqsUpTo(_)
SeqsUpTo(n) ==
    IF n = 0 THEN {<<>>}
    ELSE LET shorter == SeqsUpTo(n - 1)
         IN  shorter \cup {Append(s, b) : s \in {t \in shorter : Len(t) = n - 1}, b \in SecretBytes}

Secrets == SeqsUpTo(MaxSecretLen)

BytesDropLast(s) == [i \in 1..(Len(s) - 1) |-> s[i]]

\* []byte(secret): the bytes of the string, in order
Bytes(s) == [i \in 1..Len(s) |-> s[i]]

\* string(data): the string made of the bytes, in order
String(b) == [i \in 1..Len(b) |-> b[i]]

----------------------------------------------------------------------------
(* The keyring backend (environment) *)

Backends == {"keychain", "secret-service", "keyctl", "wincred", "file"}

ZeroItem == [Key |-> "", Data |-> <<>>, Label |-> <<>>, Description |-> ""]

\* k.ring.Set(item): replaces the item stored under item.Key, or fails
ringSetOutcomes(r, item) ==
    {[ring |-> {i \in r : i.Key # item.Key} \cup {item}, err |-> Nil]}
    \cup {[ring |-> r, err |-> e] : e \in FaultErrors}

\* k.ring.Get(key): the item under key, ErrKeyNotFound (possibly wrapped) when
\* there is none, or a failure
ringGetOutcomes(r, key) ==
    LET found == {i \in r : i.Key = key}
    IN  (IF found = {}
         THEN {[item |-> ZeroItem, err |-> e] : e \in {ErrKeyNotFound, WrappedKeyNotFound}}
         ELSE {[item |-> i, err |-> Nil] : i \in found})
        \cup {[item |-> ZeroItem, err |-> e] : e \in FaultErrors}

\* k.ring.Remove(key): removes the item under key; for a missing key the file
\* backend reports the os.Remove error, the others ErrKeyNotFound
ringRemoveOutcomes(r, key, b) ==
    LET found == {i \in r : i.Key = key}
    IN  (IF found = {}
         THEN IF b = "file"
              THEN {[ring |-> r, err |-> PathErrorNotExist]}
              ELSE {[ring |-> r, err |-> e] : e \in {ErrKeyNotFound, WrappedKeyNotFound}}
         ELSE {[ring |-> r \ found, err |-> Nil]})
        \cup {[ring |-> r, err |-> e] : e \in FaultErrors}

----------------------------------------------------------------------------
(* keyringStore *)

ItemKeyedByLabel(account, secret) ==
    [Key         |-> "Headjack - ",
     Data        |-> Bytes(secret),
     Label       |-> <<"Headjack - ", account>>,
     Description |-> "Headjack CLI credential"]

\* the keyring.Item built by keyringStore.Set
Item(account, secret) ==
    [Key         |-> account,
     Data        |-> Bytes(secret),
     Label       |-> <<"Headjack - ", account>>,
     Description |-> "Headjack CLI credential"]

GetResultSwallow(item, err) ==
    IF err # Nil
    THEN [value |-> <<>>, err |-> ErrNotFound]
    ELSE [value |-> String(item.Data), err |-> Nil]

\* keyringStore.Get, after the backend call
GetResult(item, err) ==
    IF errorsIs(err, ErrKeyNotFound)
    THEN [value |-> <<>>, err |-> ErrNotFound]
    ELSE IF err # Nil
         THEN [value |-> <<>>, err |-> err]
         ELSE [value |-> String(item.Data), err |-> Nil]

DeleteResultTypedOnly(err) ==
    IF err = Nil THEN Nil
    ELSE IF errorsIs(err, ErrKeyNotFound) THEN Nil
    ELSE err

\* keyringStore.Delete, after the backend call
DeleteResult(err) ==
    IF err = Nil THEN Nil
    ELSE IF errorsIs(err, ErrKeyNotFound) \/ osIsNotExist(err) THEN Nil
    ELSE err

Live(s) == [live |-> TRUE, secret |-> s]
Absent  == [live |-> FALSE, secret |-> <<>>]

\* the data the backend holds under key, <<>> when it holds none
held(r, key) ==
    IF \E i \in r : i.Key = key
    THEN (CHOOSE i \in r : i.Key = key).Data
    ELSE <<>>

Op(op, account, secret) ==
    [op |-> op, account |-> account, secret |-> secret,
     had  |-> \E i \in ring : i.Key = account,
     prev |-> held(ring, account)]

\* the backend calls of one operation, made in order; each may fail
RECURSIVE runCalls(_, _, _)
runCalls(r, calls, b) ==
    IF calls = <<>>
    THEN {[ring |-> r, errs |-> <<>>]}
    ELSE LET c    == Head(calls)
             outs == IF c.fn = "Remove"
                     THEN ringRemoveOutcomes(r, c.item.Key, b)
                     ELSE ringSetOutcomes(r, c.item)
         IN  UNION {{[ring |-> rest.ring, errs |-> <<o.err>> \o rest.errs]
                     : rest \in runCalls(o.ring, Tail(calls), b)} : o \in outs}

SetCallsWithPreDelete(account, secret) ==
    <<[fn |-> "Remove", item |-> Item(account, secret)],
      [fn |-> "Set", item |-> Item(account, secret)]>>

\* the backend calls keyringStore.Set makes: one k.ring.Set
SetCalls(account, secret) ==
    <<[fn |-> "Set", item |-> Item(account, secret)]>>

\* keyringStore.Set returns the error of its last backend call
storeSet(account, secret) ==
    /\ pc = "open"
    /\ \E run \in runCalls(ring, SetCalls(account, secret), backend) :
        LET err == run.errs[Len(run.errs)]
        IN  /\ ring' = run.ring
            /\ ringErr' = err
            /\ res' = [value |-> <<>>, err |-> err]
            /\ expect' = IF err = Nil
                         THEN [expect EXCEPT ![account] = Live(secret)]
                         ELSE expect
    /\ ringCalls' = [i \in 1..Len(SetCalls(account, secret)) |->
                        [fn  |-> SetCalls(account, secret)[i].fn,
                         key |-> SetCalls(account, secret)[i].item.Key]]
    /\ lastOp' = Op("Set", account, secret)
    /\ UNCHANGED <<pc, backend, newVars, overwritesAtomically>>

storeGet(account) ==
    /\ pc = "open"
    /\ \E out \in ringGetOutcomes(ring, account) :
        /\ ringErr' = out.err
        /\ res' = GetResult(out.item, out.err)
    /\ ringCalls' = <<[fn |-> "Get", key |-> account]>>
    /\ lastOp' = Op("Get", account, <<>>)
    /\ UNCHANGED <<pc, backend, newVars, overwritesAtomically, ring, expect>>

storeDelete(account) ==
    /\ pc = "open"
    /\ \E out \in ringRemoveOutcomes(ring, account, backend) :
        /\ ring' = out.ring
        /\ ringErr' = out.err
        /\ res' = [value |-> <<>>, err |-> DeleteResult(out.err)]
        /\ expect' = IF DeleteResult(out.err) = Nil
                     THEN [expect EXCEPT ![account] = Absent]
                     ELSE expect
    /\ ringCalls' = <<[fn |-> "Remove", key |-> account]>>
    /\ lastOp' = Op("Delete", account, <<>>)
    /\ UNCHANGED <<pc, backend, newVars, overwritesAtomically>>

Set(account, secret) == storeSet(account, secret) /\ UNCHANGED authVars

Get(account) == storeGet(account) /\ UNCHANGED authVars

Delete(account) == storeDelete(account) /\ UNCHANGED authVars

----------------------------------------------------------------------------
(* Specification of an opened store *)

Missing == [state |-> "missing", data |-> <<>>]

NoFiles == [f \in {"auth.json", "oauth_creds.json", "google_accounts.json"} |-> Missing]

NoCall == [fn |-> "none", provider |-> ""]

NoRet == [value |-> <<>>, err |-> <<>>]

NoForm == [shown |-> FALSE, options |-> <<>>, picked |-> 0, err |-> <<>>]

NoGen == [pc |-> "idle", exists |-> {}, arg |-> 0, maxAttempts |-> 0, i |-> 0, calls |-> 0,
          rejected |-> {}, value |-> <<>>, err |-> <<>>]

NoStored == [p \in {"claude", "codex", "gemini"} |-> <<>>]

AuthIdle ==
    /\ gen = NoGen
    /\ lastStored = NoStored
    /\ fs = NoFiles
    /\ authIn = <<>>
    /\ authCall = NoCall
    /\ authRet = NoRet
    /\ form = NoForm

NotCalled == "<not called>"

NoEnv == [goos |-> "", backend |-> "", password |-> "", dbusAddr |-> "",
          xdgRuntimeDir |-> "", busStatOK |-> FALSE, stdinTerminal |-> FALSE,
          homeOK |-> FALSE]

NoCfg == [Backend |-> "", FileDir |-> "", PasswordFunc |-> "nil"]

NoConfig == [ServiceName |-> "", FileDir |-> "", FilePasswordFunc |-> "nil",
             AllowedBackends |-> <<>>]

NoPwCall == [called |-> FALSE, envRead |-> FALSE, prompt |-> "none",
             value |-> "", err |-> Nil]

NoOp == [op |-> "none", account |-> "", secret |-> <<>>, had |-> FALSE, prev |-> <<>>]

NoRes == [value |-> <<>>, err |-> Nil]

Init ==
    /\ pc = "open"
    /\ backend \in Backends
    /\ overwritesAtomically \in BOOLEAN
    /\ ring = {}
    /\ expect = [a \in Accounts |-> Absent]
    /\ lastOp = NoOp
    /\ res = NoRes
    /\ ringCalls = <<>>
    /\ ringErr = Nil
    /\ env = NoEnv
    /\ cfg = NoCfg
    /\ detected = NotCalled
    /\ config = NoConfig
    /\ openAttempts = <<>>
    /\ newErr = Nil
    /\ pwCall = NoPwCall
    /\ AuthIdle

Next ==
    \/ \E a \in Accounts, s \in Secrets : Set(a, s)
    \/ \E a \in Accounts : Get(a)
    \/ \E a \in Accounts : Delete(a)

Spec == Init /\ [][Next]_vars

----------------------------------------------------------------------------
(* Construction: NewWithConfig, detectBackend, openKeyring *)

BackendAuto == ""

serviceName == "com.headjack.cli"

isSecretServiceAvailableNoStat(e) ==
    IF e.dbusAddr # "" THEN TRUE
    ELSE IF e.xdgRuntimeDir # "" THEN TRUE
    ELSE FALSE

\* isSecretServiceAvailable(): DBUS_SESSION_BUS_ADDRESS is set, or
\* XDG_RUNTIME_DIR is set and os.Stat of its "bus" entry succeeds
isSecretServiceAvailable(e) ==
    IF e.dbusAddr # "" THEN TRUE
    ELSE IF e.xdgRuntimeDir # "" /\ e.busStatOK THEN TRUE
    ELSE FALSE

isKeyctlAvailable(e) == e.goos = "linux"

detectBackendFileOnLinux(e) ==
    CASE e.goos = "darwin"  -> "keychain"
      [] e.goos = "windows" -> "wincred"
      [] e.goos = "linux"   -> IF isSecretServiceAvailable(e) THEN "secret-service"
                               ELSE "file"
      [] OTHER              -> "file"

detectBackend(e) ==
    CASE e.goos = "darwin"  -> "keychain"
      [] e.goos = "windows" -> "wincred"
      [] e.goos = "linux"   -> IF isSecretServiceAvailable(e) THEN "secret-service"
                               ELSE IF isKeyctlAvailable(e) THEN "keyctl"
                               ELSE "file"
      [] OTHER              -> "file"

selectBackendEnvOnlyForAuto(c, det, e) ==
    IF c.Backend = BackendAuto
    THEN (IF e.backend # "" THEN e.backend ELSE det)
    ELSE c.Backend

\* NewWithConfig, lines 34-42: det is the result of detectBackend() when it ran
selectBackend(c, det, e) ==
    LET b == IF c.Backend = BackendAuto THEN det ELSE c.Backend
    IN  IF e.backend # "" THEN e.backend ELSE b

ErrNoAvailImpl == <<"keyring.ErrNoAvailImpl">>

\* keyring.Open(config): opens the one allowed backend; a name the library does
\* not know cannot be opened, a known one may still fail to open
keyringOpenOutcomes(kc) ==
    LET b == kc.AllowedBackends[1]
    IN  {[ok |-> FALSE, err |-> ErrNoAvailImpl]}
        \cup (IF b \in Backends THEN {[ok |-> TRUE, err |-> Nil]} ELSE {})

defaultFileDir == "<home>/.config/headjack"

passwordFuncAlwaysDefault(c) == "default"

\* openKeyring, lines 108-111: the password function handed to the backend
passwordFunc(c) ==
    IF c.PasswordFunc = "nil" THEN "default" ELSE c.PasswordFunc

\* openKeyring: the keyring.Config it builds
keyringConfig(b, c) ==
    [ServiceName      |-> serviceName,
     FileDir          |-> IF c.FileDir = "" THEN defaultFileDir ELSE c.FileDir,
     FilePasswordFunc |-> passwordFunc(c),
     AllowedBackends  |-> <<b>>]

openKeyringFallback(b, c, e) ==
    LET kc == keyringConfig(b, c)
    IN  {[ok |-> out.ok, err |-> out.err, config |-> kc,
          attempts |-> IF out.ok THEN <<kc.AllowedBackends>>
                       ELSE <<kc.AllowedBackends, <<"file">>>>]
         : out \in keyringOpenOutcomes(kc)}

\* openKeyring(backend, cfg): the possible results
openKeyring(b, c, e) ==
    IF c.FileDir = "" /\ ~e.homeOK
    THEN {[ok |-> FALSE, err |-> <<"get home directory", "os.UserHomeDir">>,
           config |-> NoConfig, attempts |-> <<>>]}
    ELSE LET kc == keyringConfig(b, c)
         IN  {[ok |-> out.ok, err |-> out.err, config |-> kc,
               attempts |-> <<kc.AllowedBackends>>]
              : out \in keyringOpenOutcomes(kc)}

Envs ==
    [goos          : {"darwin", "windows", "linux", "freebsd"},
     backend       : {"", "file", "keyctl", "no-such-backend"},
     password      : {"", "env-password"},
     dbusAddr      : {"", "unix:path=/run/user/1000/bus"},
     xdgRuntimeDir : {"", "/run/user/1000"},
     busStatOK     : BOOLEAN,
     stdinTerminal : BOOLEAN,
     homeOK        : BOOLEAN]

Configs ==
    [Backend      : {BackendAuto} \cup Backends,
     FileDir      : {"", "/tmp/store"},
     PasswordFunc : {"nil", "callerPassword", "callerError"}]

NewWithConfigOnEager(c, e) ==
    /\ cfg' = c
    /\ env' = e
    /\ LET det == IF c.Backend = BackendAuto THEN detectBackend(e) ELSE NotCalled
           b   == selectBackend(c, det, e)
       IN  /\ detected' = det
           /\ backend' = b
           /\ \E out \in openKeyring(b, c, e) :
                /\ config' = out.config
                /\ openAttempts' = out.attempts
                /\ newErr' = IF out.ok THEN Nil ELSE <<"open keyring">> \o out.err
                /\ pc' = IF out.ok THEN "open" ELSE "failed"
           /\ pwCall' = IF b = "file"
                        THEN [called |-> TRUE, envRead |-> TRUE, prompt |-> "none",
                              value |-> e.password,
                              err |-> IF e.password = "" THEN ErrNoPassword ELSE Nil]
                        ELSE pwCall
    /\ UNCHANGED <<storeVars, authVars>>

NewWithConfigOn(c, e) ==
    /\ cfg' = c
    /\ env' = e
    /\ LET det == IF c.Backend = BackendAuto THEN detectBackend(e) ELSE NotCalled
           b   == selectBackend(c, det, e)
       IN  /\ detected' = det
           /\ backend' = b
           /\ \E out \in openKeyring(b, c, e) :
                /\ config' = out.config
                /\ openAttempts' = out.attempts
                /\ newErr' = IF out.ok THEN Nil ELSE <<"open keyring">> \o out.err
                /\ pc' = IF out.ok THEN "open" ELSE "failed"
    /\ UNCHANGED <<pwCall, storeVars, authVars>>

NewWithConfig ==
    /\ pc = "init"
    /\ \E c \in Configs, e \in Envs : NewWithConfigOn(c, e)

----------------------------------------------------------------------------
(* Password resolution for the encrypted-file backend *)

\* what the user does at the prompt of term.ReadPassword
Typed == {[value |-> "typed-password", err |-> Nil],
          [value |-> "", err |-> Nil],
          [value |-> "", err |-> <<"read error">>]}

\* terminalPrompt: reads without echo, wraps a read error
terminalPrompt(typed) ==
    [called |-> TRUE, envRead |-> TRUE, prompt |-> "ReadPassword",
     value  |-> IF typed.err # Nil THEN "" ELSE typed.value,
     err    |-> IF typed.err # Nil THEN <<"read password">> \o typed.err ELSE Nil]

defaultPasswordFuncPromptFirst(e, typed) ==
    IF e.stdinTerminal
    THEN terminalPrompt(typed)
    ELSE IF e.password # ""
         THEN [called |-> TRUE, envRead |-> TRUE, prompt |-> "none",
               value |-> e.password, err |-> Nil]
         ELSE [called |-> TRUE, envRead |-> TRUE, prompt |-> "none",
               value |-> "", err |-> ErrNoPassword]

defaultPasswordFunc(e, typed) ==
    IF e.password # ""
    THEN [called |-> TRUE, envRead |-> TRUE, prompt |-> "none",
          value |-> e.password, err |-> Nil]
    ELSE IF e.stdinTerminal
         THEN terminalPrompt(typed)
         ELSE [called |-> TRUE, envRead |-> TRUE, prompt |-> "none",
               value |-> "", err |-> ErrNoPassword]

\* a password function supplied by the caller in Config.PasswordFunc
callerPasswordFunc(f) ==
    IF f = "callerPassword"
    THEN [called |-> TRUE, envRead |-> FALSE, prompt |-> "none",
          value |-> "caller-password", err |-> Nil]
    ELSE [called |-> TRUE, envRead |-> FALSE, prompt |-> "none",
          value |-> "", err |-> <<"caller error">>]

\* the file backend asks config.FilePasswordFunc for its password
FilePassword ==
    /\ pc = "open"
    /\ backend = "file"
    /\ \E typed \in Typed :
         pwCall' = IF config.FilePasswordFunc = "default"
                   THEN defaultPasswordFunc(env, typed)
                   ELSE callerPasswordFunc(config.FilePasswordFunc)
    /\ pc' = "asked"
    /\ UNCHANGED <<env, cfg, detected, backend, config, openAttempts, newErr, storeVars, authVars>>

InitNew ==
    /\ pc = "init"
    /\ backend = BackendAuto
    /\ overwritesAtomically = TRUE
    /\ ring = {}
    /\ expect = [a \in Accounts |-> Absent]
    /\ lastOp = NoOp
    /\ res = NoRes
    /\ ringCalls = <<>>
    /\ ringErr = Nil
    /\ env = NoEnv
    /\ cfg = NoCfg
    /\ detected = NotCalled
    /\ config = NoConfig
    /\ openAttempts = <<>>
    /\ newErr = Nil
    /\ pwCall = NoPwCall
    /\ AuthIdle

NextNew ==
    \/ NewWithConfig
    \/ FilePassword

SpecNew == InitNew /\ [][NextNew]_vars

----------------------------------------------------------------------------
(* The encrypted-file backend and its password.  The backend (keyring's     *)
(* fileKeyring) is the environment of the store: it asks                     *)
(* config.FilePasswordFunc for the password when it has to encrypt or        *)
(* decrypt and holds none, and keeps a non-empty password it was given.      *)

\* the file backend holds a password from an earlier request
filePasswordCached(pw) == pw.called /\ pw.err = Nil /\ pw.value # ""

\* the backend's unlock(): the password request it makes, if it makes one
fileUnlock(pw, kc, e, typed) ==
    IF filePasswordCached(pw) THEN pw
    ELSE IF kc.FilePasswordFunc = "default"
         THEN defaultPasswordFunc(e, typed)
         ELSE callerPasswordFunc(kc.FilePasswordFunc)

\* k.ring.Set(item) on the file backend: unlocks, then encrypts and writes
fileSetOutcomes(r, item, pw) ==
    IF pw.err # Nil THEN {[ring |-> r, err |-> pw.err]}
    ELSE ringSetOutcomes(r, item)

\* k.ring.Get(key) on the file backend: a missing file is reported before the
\* password is asked for; an existing one is unlocked, then decrypted
fileGetOutcomes(r, key, pw) ==
    IF pw.err # Nil THEN {[item |-> ZeroItem, err |-> pw.err]}
    ELSE ringGetOutcomes(r, key)

FileAccounts == {"claude-credential", "codex-credential"}

FileSecrets == {<<97>>, <<98>>}

fileVars == <<pc, backend, env, cfg, detected, config, openAttempts, newErr,
              overwritesAtomically, authVars>>

\* keyringStore.Set on a file-backed store
FileSet(account, secret) ==
    /\ pc = "open"
    /\ backend = "file"
    /\ \E typed \in Typed :
        LET pw == fileUnlock(pwCall, config, env, typed)
        IN  /\ pwCall' = pw
            /\ \E out \in fileSetOutcomes(ring, Item(account, secret), pw) :
                /\ ring' = out.ring
                /\ ringErr' = out.err
                /\ res' = [value |-> <<>>, err |-> out.err]
                /\ expect' = IF out.err = Nil
                             THEN [expect EXCEPT ![account] = Live(secret)]
                             ELSE expect
    /\ ringCalls' = <<[fn |-> "Set", key |-> Item(account, secret).Key]>>
    /\ lastOp' = Op("Set", account, secret)
    /\ UNCHANGED fileVars

\* keyringStore.Get on a file-backed store
FileGet(account) ==
    /\ pc = "open"
    /\ backend = "file"
    /\ \E typed \in Typed :
        LET pw == IF \E i \in ring : i.Key = account
                  THEN fileUnlock(pwCall, config, env, typed)
                  ELSE pwCall
        IN  /\ pwCall' = pw
            /\ \E out \in (IF \E i \in ring : i.Key = account
                           THEN fileGetOutcomes(ring, account, pw)
                           ELSE ringGetOutcomes(ring, account)) :
                /\ ringErr' = out.err
                /\ res' = GetResult(out.item, out.err)
    /\ ringCalls' = <<[fn |-> "Get", key |-> account]>>
    /\ lastOp' = Op("Get", account, <<>>)
    /\ UNCHANGED <<fileVars, ring, expect>>

\* keyringStore.Delete on a file-backed store: os.Remove of the entry's file,
\* no password involved
FileDelete(account) ==
    /\ pc = "open"
    /\ backend = "file"
    /\ \E out \in ringRemoveOutcomes(ring, account, backend) :
        /\ ring' = out.ring
        /\ ringErr' = out.err
        /\ res' = [value |-> <<>>, err |-> DeleteResult(out.err)]
        /\ expect' = IF DeleteResult(out.err) = Nil
                     THEN [expect EXCEPT ![account] = Absent]
                     ELSE expect
    /\ ringCalls' = <<[fn |-> "Remove", key |-> account]>>
    /\ lastOp' = Op("Delete", account, <<>>)
    /\ UNCHANGED <<fileVars, pwCall>>

\* NewWithConfig for a configuration that names the file backend
NewFileStore ==
    /\ pc = "init"
    /\ \E c \in Configs, e \in Envs :
        /\ c.Backend = "file"
        /\ e.backend = ""
        /\ e.goos = "linux"
        /\ e.dbusAddr = ""
        /\ e.xdgRuntimeDir = ""
        /\ ~e.busStatOK
        /\ NewWithConfigOn(c, e)

NextFile ==
    \/ NewFileStore
    \/ \E a \in FileAccounts, s \in FileSecrets : FileSet(a, s)
    \/ \E a \in FileAccounts : FileGet(a)
    \/ \E a \in FileAccounts : FileDelete(a)

SpecFile == InitNew /\ [][NextFile]_vars

----------------------------------------------------------------------------
(* internal/auth: strings.  A Go string is the sequence of its bytes.      *)

MaxPad == 1

MaxStripLen == 4

MaxSegs == 3

MaxLines == 1

ESC == 27

LF == 10

CR == 13

SP == 32

isSpace(b) == b \in {9, 10, 11, 12, 13, 32}

isLetterLowerOnly(b) == b >= 97 /\ b <= 122

\* the test that ends an escape sequence in stripANSI
isLetter(b) == (b >= 97 /\ b <= 122) \/ (b >= 65 /\ b <= 90)

\* strings.TrimSpace
TrimSpace(s) ==
    LET keep == {i \in 1..Len(s) : ~isSpace(s[i])}
    IN  IF keep = {} THEN <<>>
        ELSE SubSeq(s, CHOOSE i \in keep : \A j \in keep : i <= j,
                       CHOOSE i \in keep : \A j \in keep : i >= j)

\* strings.HasPrefix
HasPrefix(s, prefix) ==
    Len(s) >= Len(prefix) /\ SubSeq(s, 1, Len(prefix)) = prefix

RECURSIVE stripFromCSIOnly(_, _, _)
stripFromCSIOnly(s, i, inEscape) ==
    IF i > Len(s) THEN <<>>
    ELSE IF s[i] = ESC /\ i < Len(s) /\ s[i + 1] = 91 THEN stripFromCSIOnly(s, i + 1, TRUE)
    ELSE IF inEscape THEN stripFromCSIOnly(s, i + 1, ~isLetter(s[i]))
    ELSE <<s[i]>> \o stripFromCSIOnly(s, i + 1, FALSE)

RECURSIVE stripFrom(_, _, _)
stripFrom(s, i, inEscape) ==
    IF i > Len(s) THEN <<>>
    ELSE IF s[i] = ESC THEN stripFrom(s, i + 1, TRUE)
    ELSE IF inEscape THEN stripFrom(s, i + 1, ~isLetter(s[i]))
    ELSE <<s[i]>> \o stripFrom(s, i + 1, FALSE)

\* stripANSI
stripANSI(s) == stripFrom(s, 1, FALSE)

claudeTokenPrefix == <<115, 107, 45, 97, 110, 116, 45>>

isClaudeTokenAnywhere(s) ==
    \E i \in 0..(Len(s) - Len(claudeTokenPrefix)) :
        SubSeq(s, i + 1, i + Len(claudeTokenPrefix)) = claudeTokenPrefix

\* isClaudeToken
isClaudeToken(s) == HasPrefix(s, claudeTokenPrefix)

\* strings.FieldsFunc(output, r == '\n' || r == '\r'): the maximal runs of
\* bytes that are neither, in order
RECURSIVE fieldsFrom(_, _, _)
fieldsFrom(s, i, cur) ==
    IF i > Len(s)
    THEN (IF cur = <<>> THEN <<>> ELSE <<cur>>)
    ELSE IF s[i] = LF \/ s[i] = CR
         THEN (IF cur = <<>> THEN <<>> ELSE <<cur>>) \o fieldsFrom(s, i + 1, <<>>)
         ELSE fieldsFrom(s, i + 1, Append(cur, s[i]))

splitLines(output) == fieldsFrom(output, 1, <<>>)

\* the loop of extractToken over the lines from index i
RECURSIVE firstToken(_, _)
firstToken(lines, i) ==
    IF i > Len(lines) THEN <<>>
    ELSE LET line == stripANSI(TrimSpace(lines[i]))
         IN  IF isClaudeToken(line) THEN line ELSE firstToken(lines, i + 1)

\* extractToken
extractToken(output) == firstToken(splitLines(output), 1)

----------------------------------------------------------------------------
(* Inputs of the string functions *)

RECURSIVE BytesUpTo(_, _)
BytesUpTo(alphabet, n) ==
    IF n = 0 THEN {<<>>}
    ELSE LET shorter == BytesUpTo(alphabet, n - 1)
         IN  shorter \cup {Append(t, b) : t \in {u \in shorter : Len(u) = n - 1}, b \in alphabet}

\* "\x1b[31msk-ant-abc123\x1b[0m"
ColouredToken == <<27>> \o <<91, 51, 49, 109>> \o <<115, 107, 45, 97, 110, 116, 45, 97, 98, 99, 49, 50, 51>> \o <<27>> \o <<91, 48, 109>>

PlainToken == <<115, 107, 45, 97, 110, 116, 45, 97, 98, 99, 49, 50, 51>>

\* escape byte, '[' (not a letter), 'm' and 'A' (letters)
StripInputs == BytesUpTo({ESC, 91, 109, 65}, MaxStripLen) \cup {ColouredToken, PlainToken}

\* what a line of captured output is made of: a token, a blank, a colour
\* reset, other text
Segments == {<<115, 107, 45, 97, 110, 116, 45, 97, 49>>, <<SP>>, <<ESC, 91, 48, 109>>, <<120>>}

RECURSIVE Concats(_, _)
Concats(parts, n) ==
    IF n = 0 THEN {<<>>}
    ELSE LET shorter == Concats(parts, n - 1)
         IN  shorter \cup {t \o q : t \in shorter, q \in parts}

OutputLines == Concats(Segments, MaxSegs)

RECURSIVE OutputsOf(_)
OutputsOf(n) ==
    IF n = 1 THEN OutputLines
    ELSE LET fewer == OutputsOf(n - 1)
         IN  fewer \cup {o \o <<LF>> \o l : o \in fewer, l \in OutputLines}

OtherToken == <<115, 107, 45, 97, 110, 116, 45, 98, 50>>

\* outputs of up to MaxLines lines, every line before and after a line that
\* holds another token, and a token with a colour reset inside its prefix
ExtractInputs ==
    OutputsOf(MaxLines)
    \cup {l \o <<CR, LF>> \o OtherToken \o <<CR>> : l \in OutputLines}
    \cup {OtherToken \o <<LF>> \o l : l \in OutputLines}
    \cup {<<115, 107, 45, ESC, 91, 48, 109, 97, 110, 116, 45, 97, 49>>}

StripANSI ==
    /\ authCall = NoCall
    /\ authCall' = [fn |-> "stripANSI", provider |-> ""]
    /\ authRet' = [value |-> stripANSI(authIn), err |-> Nil]
    /\ UNCHANGED <<pc, backend, newVars, storeVars, fs, authIn, form, gen, lastStored>>

ExtractToken ==
    /\ authCall = NoCall
    /\ authCall' = [fn |-> "extractToken", provider |-> ""]
    /\ authRet' = [value |-> extractToken(authIn), err |-> Nil]
    /\ UNCHANGED <<pc, backend, newVars, storeVars, fs, authIn, form, gen, lastStored>>

\* everything but the argument of the call
InitAuth ==
    /\ pc = "auth"
    /\ backend = BackendAuto
    /\ overwritesAtomically = TRUE
    /\ ring = {}
    /\ expect = [a \in Accounts |-> Absent]
    /\ lastOp = NoOp
    /\ res = NoRes
    /\ ringCalls = <<>>
    /\ ringErr = Nil
    /\ env = NoEnv
    /\ cfg = NoCfg
    /\ detected = NotCalled
    /\ config = NoConfig
    /\ openAttempts = <<>>
    /\ newErr = Nil
    /\ pwCall = NoPwCall
    /\ gen = NoGen
    /\ lastStored = NoStored
    /\ fs = NoFiles
    /\ authCall = NoCall
    /\ authRet = NoRet
    /\ form = NoForm

InitText == InitAuth /\ authIn \in StripInputs \cup ExtractInputs

NextText == StripANSI \/ ExtractToken

SpecText == InitText /\ [][NextText]_vars

----------------------------------------------------------------------------
(* encoding/json, as the providers use it.  Texts are byte strings; string *)
(* literals are read without escape sequences and numbers are unsigned     *)
(* integers: no text the model puts in holds a backslash, a sign, a        *)
(* fraction, an exponent or a character that Marshal would HTML-escape.    *)

isJSONSpace(b) == b \in {9, 10, 13, 32}

isDigit(b) == b >= 48 /\ b <= 57

RECURSIVE skipSpace(_, _)
skipSpace(s, i) ==
    IF i <= Len(s) /\ isJSONSpace(s[i]) THEN skipSpace(s, i + 1) ELSE i

hasLiteral(s, i, lit) ==
    i + Len(lit) - 1 <= Len(s) /\ SubSeq(s, i, i + Len(lit) - 1) = lit

\* index of the quote that closes the string literal whose content starts at
\* i, or 0 when there is none
RECURSIVE stringEnd(_, _)
stringEnd(s, i) ==
    IF i > Len(s) THEN 0
    ELSE IF s[i] = 34 THEN i
    ELSE IF s[i] < 32 \/ s[i] = 92 THEN 0
    ELSE stringEnd(s, i + 1)

RECURSIVE digitsEnd(_, _)
digitsEnd(s, i) ==
    IF i <= Len(s) /\ isDigit(s[i]) THEN digitsEnd(s, i + 1) ELSE i

JFail == [ok |-> FALSE, next |-> 0, kind |-> "", str |-> <<>>, members |-> <<>>]

JOk(next, kind, str, members) ==
    [ok |-> TRUE, next |-> next, kind |-> kind, str |-> str, members |-> members]

\* the scanner over one value that starts at byte i: where it ends, its kind,
\* and for an object its members with the literal bytes of their values
RECURSIVE parseValue(_, _)
RECURSIVE parseMembers(_, _, _)
RECURSIVE parseElements(_, _)
parseValue(s, i) ==
    IF i > Len(s) THEN JFail
    ELSE IF s[i] = 123
    THEN LET j == skipSpace(s, i + 1)
         IN  IF j <= Len(s) /\ s[j] = 125
             THEN JOk(j + 1, "object", <<>>, <<>>)
             ELSE parseMembers(s, j, <<>>)
    ELSE IF s[i] = 91
    THEN LET j == skipSpace(s, i + 1)
         IN  IF j <= Len(s) /\ s[j] = 93
             THEN JOk(j + 1, "array", <<>>, <<>>)
             ELSE parseElements(s, j)
    ELSE IF s[i] = 34
    THEN LET e == stringEnd(s, i + 1)
         IN  IF e = 0 THEN JFail
             ELSE JOk(e + 1, "string", SubSeq(s, i + 1, e - 1), <<>>)
    ELSE IF hasLiteral(s, i, <<110, 117, 108, 108>>) THEN JOk(i + 4, "null", <<>>, <<>>)
    ELSE IF hasLiteral(s, i, <<116, 114, 117, 101>>) THEN JOk(i + 4, "bool", <<>>, <<>>)
    ELSE IF hasLiteral(s, i, <<102, 97, 108, 115, 101>>) THEN JOk(i + 5, "bool", <<>>, <<>>)
    ELSE IF isDigit(s[i])
    THEN LET e == digitsEnd(s, i)
         IN  IF s[i] = 48 /\ e > i + 1 THEN JFail
             ELSE JOk(e, "number", <<>>, <<>>)
    ELSE JFail

parseMembers(s, i, acc) ==
    IF i > Len(s) \/ s[i] # 34 THEN JFail
    ELSE LET ke == stringEnd(s, i + 1)
         IN  IF ke = 0 THEN JFail
             ELSE LET c == skipSpace(s, ke + 1)
                  IN  IF c > Len(s) \/ s[c] # 58 THEN JFail
                      ELSE LET vs == skipSpace(s, c + 1)
                               v == parseValue(s, vs)
                               d == skipSpace(s, v.next)
                               acc2 == Append(acc, [key  |-> SubSeq(s, i + 1, ke - 1),
                                                    kind |-> v.kind,
                                                    str  |-> v.str,
                                                    raw  |-> SubSeq(s, vs, v.next - 1)])
                           IN  IF ~v.ok \/ d > Len(s) THEN JFail
                               ELSE IF s[d] = 125 THEN JOk(d + 1, "object", <<>>, acc2)
                               ELSE IF s[d] = 44 THEN parseMembers(s, skipSpace(s, d + 1), acc2)
                               ELSE JFail

parseElements(s, i) ==
    LET v == parseValue(s, i)
        d == skipSpace(s, v.next)
    IN  IF ~v.ok \/ d > Len(s) THEN JFail
        ELSE IF s[d] = 93 THEN JOk(d + 1, "array", <<>>, <<>>)
        ELSE IF s[d] = 44 THEN parseElements(s, skipSpace(s, d + 1))
        ELSE JFail

\* one value between optional white space, and nothing else
parseJSON(data) ==
    LET v == parseValue(data, skipSpace(data, 1))
    IN  IF v.ok /\ skipSpace(data, v.next) > Len(data) THEN v ELSE JFail

SyntaxError == <<"json.SyntaxError">>

UnmarshalTypeError == <<"json.UnmarshalTypeError">>

MarshalerError == <<"json.MarshalerError", "json.SyntaxError">>

\* a name with its upper-case letters made lower-case
foldName(key) ==
    [i \in 1..Len(key) |-> IF key[i] >= 65 /\ key[i] <= 90 THEN key[i] + 32 ELSE key[i]]

\* the struct field an object key decodes into: the exact name, else a name
\* equal to it ignoring case, else none (<<>>)
fieldFor(key, names) ==
    IF key \in names THEN key
    ELSE IF \E n \in names : foldName(n) = foldName(key)
         THEN CHOOSE n \in names : foldName(n) = foldName(key)
         ELSE <<>>

oauthCredsName == <<111, 97, 117, 116, 104, 95, 99, 114, 101, 100, 115>>

googleAccountsName == <<103, 111, 111, 103, 108, 101, 95, 97, 99, 99, 111, 117, 110, 116, 115>>

refreshTokenName == <<114, 101, 102, 114, 101, 115, 104, 95, 116, 111, 107, 101, 110>>

\* every member in order; a json.RawMessage field takes the literal bytes of
\* the member's value, the literal null included
RECURSIVE decodeGeminiConfig(_, _, _)
decodeGeminiConfig(members, i, gconf) ==
    IF i > Len(members) THEN gconf
    ELSE LET f == fieldFor(members[i].key, {oauthCredsName, googleAccountsName})
         IN  decodeGeminiConfig(members, i + 1,
                 IF f = oauthCredsName THEN [gconf EXCEPT !.OAuthCreds = members[i].raw]
                 ELSE IF f = googleAccountsName THEN [gconf EXCEPT !.GoogleAccounts = members[i].raw]
                 ELSE gconf)

\* json.Unmarshal(data, &config) for a zero GeminiConfig
unmarshalGeminiConfig(data) ==
    LET v == parseJSON(data)
        zero == [OAuthCreds |-> <<>>, GoogleAccounts |-> <<>>, err |-> Nil]
    IN  IF ~v.ok THEN [zero EXCEPT !.err = SyntaxError]
        ELSE IF v.kind = "null" THEN zero
        ELSE IF v.kind = "object" THEN decodeGeminiConfig(v.members, 1, zero)
        ELSE [zero EXCEPT !.err = UnmarshalTypeError]

\* a string member sets the field, a null member leaves it, a member of any
\* other kind is a type error
RECURSIVE decodeOAuthCreds(_, _, _)
decodeOAuthCreds(members, i, creds) ==
    IF i > Len(members) THEN creds
    ELSE decodeOAuthCreds(members, i + 1,
             IF fieldFor(members[i].key, {refreshTokenName}) # refreshTokenName THEN creds
             ELSE IF members[i].kind = "string" THEN [creds EXCEPT !.RefreshToken = members[i].str]
             ELSE IF members[i].kind = "null" THEN creds
             ELSE [creds EXCEPT !.err = UnmarshalTypeError])

\* json.Unmarshal(data, &oauthCreds) for a zero struct{RefreshToken string}
unmarshalOAuthCreds(data) ==
    LET v == parseJSON(data)
        zero == [RefreshToken |-> <<>>, err |-> Nil]
    IN  IF ~v.ok THEN [zero EXCEPT !.err = SyntaxError]
        ELSE IF v.kind = "null" THEN zero
        ELSE IF v.kind = "object" THEN decodeOAuthCreds(v.members, 1, zero)
        ELSE [zero EXCEPT !.err = UnmarshalTypeError]

\* the bytes of a valid text without the white space outside its strings
RECURSIVE compactFrom(_, _, _)
compactFrom(s, i, inString) ==
    IF i > Len(s) THEN <<>>
    ELSE IF inString THEN <<s[i]>> \o compactFrom(s, i + 1, s[i] # 34)
    ELSE IF isJSONSpace(s[i]) THEN compactFrom(s, i + 1, FALSE)
    ELSE <<s[i]>> \o compactFrom(s, i + 1, s[i] = 34)

compactVerbatim(raw) == raw

\* what the encoder writes for a json.RawMessage it has found valid
compact(raw) == compactFrom(raw, 1, FALSE)

marshalGeminiConfigUnchecked(gconf) ==
    [data |-> <<123, 34, 111, 97, 117, 116, 104, 95, 99, 114, 101, 100, 115, 34, 58>> \o gconf.OAuthCreds
              \o <<44, 34, 103, 111, 111, 103, 108, 101, 95, 97, 99, 99, 111, 117, 110, 116, 115, 34, 58>> \o gconf.GoogleAccounts
              \o <<125>>,
     err |-> Nil]

\* json.Marshal(gconf) for a GeminiConfig whose two fields are not nil
marshalGeminiConfig(gconf) ==
    IF ~parseJSON(gconf.OAuthCreds).ok \/ ~parseJSON(gconf.GoogleAccounts).ok
    THEN [data |-> <<>>, err |-> MarshalerError]
    ELSE [data |-> <<123, 34, 111, 97, 117, 116, 104, 95, 99, 114, 101, 100, 115, 34, 58>> \o compact(gconf.OAuthCreds)
                   \o <<44, 34, 103, 111, 111, 103, 108, 101, 95, 97, 99, 99, 111, 117, 110, 116, 115, 34, 58>> \o compact(gconf.GoogleAccounts)
                   \o <<125>>,
          err |-> Nil]

----------------------------------------------------------------------------
(* internal/auth: the providers.  An error is the sequence of the parts of *)
(* its message, outermost first: the lines of an errors.New text, or the   *)
(* prefix of a fmt.Errorf("...: %w") followed by the wrapped error.        *)

ProviderNames == {"claude", "gemini", "codex"}

KeychainAccountShared == [p \in ProviderNames |-> "claude-credential"]

\* ProviderInfo.KeychainAccount of claudeInfo, geminiInfo and codexInfo
KeychainAccount ==
    [claude |-> "claude-credential",
     gemini |-> "gemini-credential",
     codex  |-> "codex-credential"]

ErrEmptyToken == <<"token cannot be empty">>

ErrEmptyAPIKey == <<"API key cannot be empty">>

ErrEmptyCredentials == <<"credentials cannot be empty">>

ErrClaudeTokenFormat == <<"invalid Claude OAuth token: must start with 'sk-ant-'">>

ErrClaudeAPIKeyFormat == <<"invalid Anthropic API key: must start with 'sk-ant-api'">>

ErrCodexAuthFormat == <<"invalid auth.json: must be a JSON object">>

ErrCodexAPIKeyFormat == <<"invalid OpenAI API key: must start with 'sk-'">>

ErrGeminiAPIKeyFormat == <<"invalid Google AI API key: must start with 'AIza'">>

ErrMissingOAuthCreds == <<"missing oauth_creds in credentials">>

ErrMissingGoogleAccounts == <<"missing google_accounts in credentials">>

ErrMissingRefreshToken == <<"missing refresh_token in oauth_creds">>

claudeAPIKeyPrefix == <<115, 107, 45, 97, 110, 116, 45, 97, 112, 105>>

codexAPIKeyPrefix == <<115, 107, 45>>

geminiAPIKeyPrefix == <<65, 73, 122, 97>>

codexAuthPrefix == <<123>>

\* ClaudeProvider.ValidateSubscription
ClaudeValidateSubscription(value) ==
    LET v == TrimSpace(value)
    IN  IF v = <<>> THEN ErrEmptyToken
        ELSE IF ~HasPrefix(v, claudeTokenPrefix) THEN ErrClaudeTokenFormat
        ELSE Nil

\* ClaudeProvider.ValidateAPIKey
ClaudeValidateAPIKey(value) ==
    LET v == TrimSpace(value)
    IN  IF v = <<>> THEN ErrEmptyAPIKey
        ELSE IF ~HasPrefix(v, claudeAPIKeyPrefix) THEN ErrClaudeAPIKeyFormat
        ELSE Nil

\* CodexProvider.ValidateSubscription
CodexValidateSubscription(value) ==
    LET v == TrimSpace(value)
    IN  IF v = <<>> THEN ErrEmptyCredentials
        ELSE IF ~HasPrefix(v, codexAuthPrefix) THEN ErrCodexAuthFormat
        ELSE Nil

CodexValidateAPIKeyFormatFirst(value) ==
    LET v == TrimSpace(value)
    IN  IF ~HasPrefix(v, codexAPIKeyPrefix) THEN ErrCodexAPIKeyFormat
        ELSE IF v = <<>> THEN ErrEmptyAPIKey
        ELSE Nil

\* CodexProvider.ValidateAPIKey
CodexValidateAPIKey(value) ==
    LET v == TrimSpace(value)
    IN  IF v = <<>> THEN ErrEmptyAPIKey
        ELSE IF ~HasPrefix(v, codexAPIKeyPrefix) THEN ErrCodexAPIKeyFormat
        ELSE Nil

\* GeminiProvider.ValidateSubscription
GeminiValidateSubscription(value) ==
    LET v == TrimSpace(value)
        gconf == unmarshalGeminiConfig(v)
        oauthCreds == unmarshalOAuthCreds(gconf.OAuthCreds)
    IN  IF v = <<>> THEN ErrEmptyCredentials
        ELSE IF gconf.err # Nil THEN <<"invalid JSON format">> \o gconf.err
        ELSE IF Len(gconf.OAuthCreds) = 0 THEN ErrMissingOAuthCreds
        ELSE IF Len(gconf.GoogleAccounts) = 0 THEN ErrMissingGoogleAccounts
        ELSE IF oauthCreds.err # Nil THEN <<"parse oauth_creds">> \o oauthCreds.err
        ELSE IF oauthCreds.RefreshToken = <<>> THEN ErrMissingRefreshToken
        ELSE Nil

GeminiValidateAPIKeyAnyCase(value) ==
    LET v == TrimSpace(value)
    IN  IF v = <<>> THEN ErrEmptyAPIKey
        ELSE IF ~HasPrefix(foldName(v), foldName(geminiAPIKeyPrefix)) THEN ErrGeminiAPIKeyFormat
        ELSE Nil

\* GeminiProvider.ValidateAPIKey
GeminiValidateAPIKey(value) ==
    LET v == TrimSpace(value)
    IN  IF v = <<>> THEN ErrEmptyAPIKey
        ELSE IF ~HasPrefix(v, geminiAPIKeyPrefix) THEN ErrGeminiAPIKeyFormat
        ELSE Nil

ValidateSubscription(p) ==
    /\ authCall = NoCall
    /\ authCall' = [fn |-> "ValidateSubscription", provider |-> p]
    /\ authRet' = [value |-> <<>>,
                   err |-> CASE p = "claude" -> ClaudeValidateSubscription(authIn)
                             [] p = "gemini" -> GeminiValidateSubscription(authIn)
                             [] p = "codex"  -> CodexValidateSubscription(authIn)]
    /\ UNCHANGED <<pc, backend, newVars, storeVars, fs, authIn, form, gen, lastStored>>

ValidateAPIKey(p) ==
    /\ authCall = NoCall
    /\ authCall' = [fn |-> "ValidateAPIKey", provider |-> p]
    /\ authRet' = [value |-> <<>>,
                   err |-> CASE p = "claude" -> ClaudeValidateAPIKey(authIn)
                             [] p = "gemini" -> GeminiValidateAPIKey(authIn)
                             [] p = "codex"  -> CodexValidateAPIKey(authIn)]
    /\ UNCHANGED <<pc, backend, newVars, storeVars, fs, authIn, form, gen, lastStored>>

----------------------------------------------------------------------------
(* Inputs of the validators *)

\* s without its i-th byte
DropAt(s, i) == SubSeq(s, 1, i - 1) \o SubSeq(s, i + 1, Len(s))

swapCase(b) ==
    IF b >= 97 /\ b <= 122 THEN b - 32
    ELSE IF b >= 65 /\ b <= 90 THEN b + 32
    ELSE b

Prefixes == {claudeAPIKeyPrefix, codexAPIKeyPrefix, geminiAPIKeyPrefix, claudeTokenPrefix, codexAuthPrefix}

\* a prefix, a prefix with something after it, a prefix short of one byte,
\* and a prefix with one letter in the other case
KeyBodies ==
    Prefixes
    \cup {q \o t : q \in Prefixes, t \in {<<120>>, <<SP, 33>>}}
    \cup UNION {{DropAt(q, i) \o <<120>> : i \in 1..Len(q)} : q \in Prefixes}
    \cup UNION {{[q EXCEPT ![i] = swapCase(q[i])] \o <<120>> : i \in 1..Len(q)} : q \in Prefixes}

Pads == BytesUpTo({SP, 9}, MaxPad)

BlankInputs == BytesUpTo({SP, 9, LF}, MaxPad + 1)

Padded(bodies) == {l \o b \o r : l \in Pads, r \in Pads, b \in bodies}

OAuthDocs ==
    { <<123, 34, 114, 101, 102, 114, 101, 115, 104, 95, 116, 111, 107, 101, 110, 34, 58, 34, 114, 34, 125>>,
      <<123, 34, 114, 101, 102, 114, 101, 115, 104, 95, 116, 111, 107, 101, 110, 34, 58, 34, 34, 125>>,
      <<123, 34, 114, 101, 102, 114, 101, 115, 104, 95, 116, 111, 107, 101, 110, 34, 58, 110, 117, 108, 108, 125>>,
      <<123, 34, 114, 101, 102, 114, 101, 115, 104, 95, 116, 111, 107, 101, 110, 34, 58, 49, 125>>,
      <<123, 34, 97, 99, 99, 101, 115, 115, 95, 116, 111, 107, 101, 110, 34, 58, 34, 97, 34, 125>>,
      <<123, 34, 97, 99, 99, 101, 115, 115, 95, 116, 111, 107, 101, 110, 34, 58, 34, 97, 34, 44, 34, 114, 101, 102, 114, 101, 115, 104, 95, 116, 111, 107, 101, 110, 34, 58, 34, 114, 34, 125>>,
      <<123, 34, 82, 101, 102, 114, 101, 115, 104, 95, 84, 111, 107, 101, 110, 34, 58, 34, 114, 34, 125>>,
      <<123, 10, 32, 32, 34, 114, 101, 102, 114, 101, 115, 104, 95, 116, 111, 107, 101, 110, 34, 58, 32, 34, 114, 34, 10, 125, 10>>,
      <<123, 125>>,
      <<110, 117, 108, 108>>,
      <<34, 114, 34>>,
      <<91, 49, 93>>,
      <<123, 34, 114, 101, 102, 114, 101, 115, 104, 95, 116, 111, 107, 101, 110, 34, 58, 34, 114, 34>>,
      <<123, 114, 101, 102, 114, 101, 115, 104, 95, 116, 111, 107, 101, 110, 58, 34, 114, 34, 125>> }

AccountsDocs ==
    { <<123, 34, 97, 99, 116, 105, 118, 101, 34, 58, 34, 117, 34, 125>>,
      <<123, 10, 32, 32, 34, 97, 99, 116, 105, 118, 101, 34, 58, 32, 34, 117, 34, 44, 10, 32, 32, 34, 111, 108, 100, 34, 58, 32, 91, 93, 10, 125, 10>>,
      <<123, 125>>,
      <<110, 117, 108, 108>>,
      <<49>>,
      <<123, 34, 97, 99, 116, 105, 118, 101, 34, 58>> }

Member(name, doc) == <<34>> \o name \o <<34, 58>> \o doc

\* composite documents with both members in either order, with one member,
\* with a key in another case, and texts that are not an object
GeminiDocs ==
    {<<123>> \o Member(oauthCredsName, o) \o <<44>> \o Member(googleAccountsName, a) \o <<125>> :
        o \in OAuthDocs, a \in AccountsDocs}
    \cup {<<123>> \o Member(googleAccountsName, a) \o <<44, SP>> \o Member(<<79, 65, 85, 84, 72, 95, 67, 82, 69, 68, 83>>, o) \o <<125>> :
        o \in OAuthDocs, a \in AccountsDocs}
    \cup {<<123>> \o Member(oauthCredsName, o) \o <<125>> : o \in OAuthDocs}
    \cup {<<123>> \o Member(googleAccountsName, a) \o <<125>> : a \in AccountsDocs}
    \cup {<<123>> \o Member(oauthCredsName, o) \o <<44>> \o Member(googleAccountsName, <<123, 125>>) \o <<125, 120>> :
        o \in OAuthDocs}
    \cup {<<123, 125>>, <<110, 117, 108, 108>>, <<91, 93>>, <<53>>, <<34, 120, 34>>, <<123, 34, 111, 97, 117, 116, 104, 95, 99, 114, 101, 100, 115, 34>>}

ValidateInputs == BlankInputs \cup Padded(KeyBodies) \cup Padded(GeminiDocs)

InitValidate == InitAuth /\ authIn \in ValidateInputs

NextValidate ==
    \/ \E p \in ProviderNames : ValidateSubscription(p)
    \/ \E p \in ProviderNames : ValidateAPIKey(p)

SpecValidate == InitValidate /\ [][NextValidate]_vars

----------------------------------------------------------------------------
(* internal/auth: CheckSubscription.  The files of the external tools are  *)
(* the environment: each is missing, unreadable or present with its bytes. *)

Present(data) == [state |-> "present", data |-> data]

Unreadable == [state |-> "unreadable", data |-> <<>>]

\* os.ReadFile(path)
osReadFile(name) ==
    CASE fs[name].state = "missing"    -> [data |-> <<>>, err |-> PathErrorNotExist]
      [] fs[name].state = "unreadable" -> [data |-> <<>>, err |-> PathErrorAccess]
      [] fs[name].state = "present"    -> [data |-> fs[name].data, err |-> Nil]

ErrCodexNotFound ==
    <<"Codex credentials not found.",
      "To authenticate with your ChatGPT subscription:",
      "1. Run: codex login",
      "2. Complete the OAuth flow in your browser",
      "3. Run: hjk auth codex">>

ErrCodexEmpty == <<"codex auth.json is empty: login may have failed">>

ErrClaudeManual ==
    <<"Claude subscription credentials must be entered manually.",
      "To get your OAuth token:",
      "1. Run: claude setup-token",
      "2. Complete the browser login flow",
      "3. Copy the token (starts with sk-ant-)">>

ErrGeminiNotFound ==
    <<"Gemini credentials not found.",
      "To authenticate with your Gemini subscription:",
      "1. Run: gemini",
      "2. Complete the Google OAuth login",
      "3. Run: hjk auth gemini">>

ErrGeminiNoRefreshToken ==
    <<"gemini credentials missing refresh token: please run 'gemini' and complete the OAuth login">>

ErrGoogleAccountsNotFound ==
    <<"google_accounts.json not found: please run 'gemini' and complete the OAuth login first">>

readCodexAuthNoEmptyCheck ==
    LET r == osReadFile("auth.json")
    IN  IF r.err # Nil
        THEN IF osIsNotExist(r.err)
             THEN [data |-> <<>>, err |-> ErrCodexNotFound]
             ELSE [data |-> <<>>, err |-> <<"read auth.json">> \o r.err]
        ELSE [data |-> r.data, err |-> Nil]

\* readCodexAuth
readCodexAuth ==
    LET r == osReadFile("auth.json")
    IN  IF r.err # Nil
        THEN IF osIsNotExist(r.err)
             THEN [data |-> <<>>, err |-> ErrCodexNotFound]
             ELSE [data |-> <<>>, err |-> <<"read auth.json">> \o r.err]
        ELSE IF Len(r.data) = 0
             THEN [data |-> <<>>, err |-> ErrCodexEmpty]
             ELSE [data |-> r.data, err |-> Nil]

\* CodexProvider.CheckSubscription
CodexCheckSubscription ==
    IF readCodexAuth.err # Nil
    THEN [value |-> <<>>, err |-> readCodexAuth.err]
    ELSE [value |-> readCodexAuth.data, err |-> Nil]

\* readGeminiConfig
readGeminiConfig ==
    LET oauth == osReadFile("oauth_creds.json")
        oauthCreds == unmarshalOAuthCreds(oauth.data)
        accounts == osReadFile("google_accounts.json")
        none == [OAuthCreds |-> <<>>, GoogleAccounts |-> <<>>]
    IN  IF oauth.err # Nil
        THEN IF osIsNotExist(oauth.err)
             THEN [gconf |-> none, err |-> ErrGeminiNotFound]
             ELSE [gconf |-> none, err |-> <<"read oauth_creds.json">> \o oauth.err]
        ELSE IF oauthCreds.err # Nil
        THEN [gconf |-> none, err |-> <<"parse oauth_creds.json">> \o oauthCreds.err]
        ELSE IF oauthCreds.RefreshToken = <<>>
        THEN [gconf |-> none, err |-> ErrGeminiNoRefreshToken]
        ELSE IF accounts.err # Nil
        THEN IF osIsNotExist(accounts.err)
             THEN [gconf |-> none, err |-> ErrGoogleAccountsNotFound]
             ELSE [gconf |-> none, err |-> <<"read google_accounts.json">> \o accounts.err]
        ELSE [gconf |-> [OAuthCreds |-> oauth.data, GoogleAccounts |-> accounts.data],
              err |-> Nil]

\* GeminiProvider.CheckSubscription
GeminiCheckSubscription ==
    LET configJSON == marshalGeminiConfig(readGeminiConfig.gconf)
    IN  IF readGeminiConfig.err # Nil
        THEN [value |-> <<>>, err |-> readGeminiConfig.err]
        ELSE IF configJSON.err # Nil
        THEN [value |-> <<>>, err |-> <<"marshal config">> \o configJSON.err]
        ELSE [value |-> configJSON.data, err |-> Nil]

ClaudeCheckSubscriptionFromStore ==
    IF \E i \in ring : i.Key = "claude-credential"
    THEN [value |-> held(ring, "claude-credential"), err |-> Nil]
    ELSE [value |-> <<>>, err |-> ErrClaudeManual]

\* ClaudeProvider.CheckSubscription
ClaudeCheckSubscription == [value |-> <<>>, err |-> ErrClaudeManual]

CheckSubscription(p) ==
    /\ authCall = NoCall
    /\ authCall' = [fn |-> "CheckSubscription", provider |-> p]
    /\ authRet' = CASE p = "claude" -> ClaudeCheckSubscription
                     [] p = "gemini" -> GeminiCheckSubscription
                     [] p = "codex"  -> CodexCheckSubscription
    /\ UNCHANGED <<pc, backend, newVars, storeVars, fs, authIn, form, gen, lastStored>>

\* auth.json: an object, text that is no JSON, text that only opens an object,
\* an object after white space, white space alone, and no bytes at all
CodexFiles ==
    { <<123, 34, 116, 111, 107, 101, 110, 115, 34, 58, 123, 34, 105, 100, 95, 116, 111, 107, 101, 110, 34, 58, 34, 116, 34, 125, 125>>,
      <<110, 111, 116, 32, 106, 115, 111, 110>>,
      <<123>>,
      <<32, 123, 34, 116, 111, 107, 101, 110, 115, 34, 58, 49, 125>>,
      <<10, 123, 120>>,
      <<10>>,
      <<>> }

FileStates(contents) == {Missing, Unreadable} \cup {Present(d) : d \in contents}

HarvestFiles ==
    {[f \in DOMAIN NoFiles |->
        CASE f = "auth.json"            -> a
          [] f = "oauth_creds.json"     -> o
          [] f = "google_accounts.json" -> g] :
        a \in FileStates(CodexFiles),
        o \in FileStates(OAuthDocs \cup {<<>>}),
        g \in FileStates(AccountsDocs \cup {<<>>})}

\* the files as the external tools left them, and a store that may hold a
\* Claude credential already
InitHarvest ==
    /\ pc = "auth"
    /\ backend = BackendAuto
    /\ overwritesAtomically = TRUE
    /\ \E stored \in SUBSET {"claude-credential"} :
          /\ ring = {Item(a, <<97>>) : a \in stored}
          /\ expect = [a \in Accounts |-> IF a \in stored THEN Live(<<97>>) ELSE Absent]
    /\ lastOp = NoOp
    /\ res = NoRes
    /\ ringCalls = <<>>
    /\ ringErr = Nil
    /\ env = NoEnv
    /\ cfg = NoCfg
    /\ detected = NotCalled
    /\ config = NoConfig
    /\ openAttempts = <<>>
    /\ newErr = Nil
    /\ pwCall = NoPwCall
    /\ gen = NoGen
    /\ lastStored = NoStored
    /\ fs \in HarvestFiles
    /\ authIn = <<>>
    /\ authCall = NoCall
    /\ authRet = NoRet
    /\ form = NoForm

NextHarvest == \E p \in ProviderNames : CheckSubscription(p)

SpecHarvest == InitHarvest /\ [][NextHarvest]_vars

----------------------------------------------------------------------------
(* internal/auth: Store and Load.  StoreCredential, LoadCredential and the *)
(* Credential type are described by the specification only: a credential   *)
(* is a type and a value, stored under the account in a serialized form    *)
(* the store does not look into.                                           *)

Credentials == [Type : {"subscription", "api_key"}, Value : {<<97>>}]

NoCredential == [Type |-> "", Value |-> <<>>]

\* the serialized form: one byte for the type, then the value
serializeCredential(cred) ==
    (IF cred.Type = "subscription" THEN <<83>> ELSE <<65>>) \o cred.Value

deserializeCredential(data) ==
    [Type |-> IF Head(data) = 83 THEN "subscription" ELSE "api_key", Value |-> Tail(data)]

\* StoreCredential(storage, account, cred): storage.Set of the serialized form
StoreCredential(account, cred) == storeSet(account, serializeCredential(cred))

\* LoadCredential(storage, account): storage.Get, its error returned as it is
LoadCredential(account) ==
    /\ storeGet(account)
    /\ authRet' = IF res'.err # Nil
                  THEN [value |-> NoCredential, err |-> res'.err]
                  ELSE [value |-> deserializeCredential(res'.value), err |-> Nil]

\* Provider.Store(storage, cred)
Store(p, cred) ==
    /\ StoreCredential(KeychainAccount[p], cred)
    /\ authCall' = [fn |-> "Store", provider |-> p]
    /\ authRet' = [value |-> NoCredential, err |-> res'.err]
    /\ lastStored' = IF res'.err = Nil THEN [lastStored EXCEPT ![p] = <<cred>>]
                                        ELSE lastStored
    /\ UNCHANGED <<fs, authIn, form, gen>>

LoadSharedEntry(p) ==
    /\ LoadCredential("claude-credential")
    /\ authCall' = [fn |-> "Load", provider |-> p]
    /\ UNCHANGED <<fs, authIn, form, gen, lastStored>>

\* Provider.Load(storage)
Load(p) ==
    /\ LoadCredential(KeychainAccount[p])
    /\ authCall' = [fn |-> "Load", provider |-> p]
    /\ UNCHANGED <<fs, authIn, form, gen, lastStored>>

\* storage.Delete(account) by a caller of the store
DeleteEntry(account) ==
    /\ storeDelete(account)
    /\ authCall' = [fn |-> "Delete", provider |-> ""]
    /\ authRet' = [value |-> NoCredential, err |-> res'.err]
    /\ lastStored' = IF res'.err = Nil THEN NoStored ELSE lastStored
    /\ UNCHANGED <<fs, authIn, form, gen>>

InitProviders ==
    /\ pc = "open"
    /\ backend \in {"keychain", "file"}
    /\ overwritesAtomically = TRUE
    /\ ring = {}
    /\ expect = [a \in Accounts |-> Absent]
    /\ lastOp = NoOp
    /\ res = NoRes
    /\ ringCalls = <<>>
    /\ ringErr = Nil
    /\ env = NoEnv
    /\ cfg = NoCfg
    /\ detected = NotCalled
    /\ config = NoConfig
    /\ openAttempts = <<>>
    /\ newErr = Nil
    /\ pwCall = NoPwCall
    /\ AuthIdle

NextProviders ==
    \/ \E p \in ProviderNames, c \in Credentials : Store(p, c)
    \/ \E p \in ProviderNames : Load(p)
    \/ \E a \in Accounts : DeleteEntry(a)

SpecProviders == InitProviders /\ [][NextProviders]_vars

----------------------------------------------------------------------------
(* internal/auth: HuhPrompter.  The huh form and the user are the          *)
(* environment.                                                            *)

MaxOptions == 3

OptionLabels == {"Subscription", "API key", "Skip"}

RECURSIVE OptionLists(_)
OptionLists(n) ==
    IF n = 0 THEN {<<>>}
    ELSE LET shorter == OptionLists(n - 1)
         IN  shorter \cup {Append(l, o) : l \in {m \in shorter : Len(m) = n - 1}, o \in OptionLabels}

ErrUserAborted == <<"huh.ErrUserAborted">>

huhOptionsOneBased(options) ==
    [i \in 1..Len(options) |-> [Key |-> options[i], Value |-> i]]

\* huhOptions[i] = huh.NewOption(opt, i), i counted from 0
huhOptions(options) ==
    [i \in 1..Len(options) |-> [Key |-> options[i], Value |-> i - 1]]

\* huh.NewSelect[int]().Options(...).Value(&selected).Run(): the user picks
\* the option at some position and its value is stored, or aborts, or the
\* form fails
huhRunOutcomes(opts) ==
    {[picked |-> k, selected |-> opts[k].Value, err |-> Nil] : k \in 1..Len(opts)}
    \cup {[picked |-> 0, selected |-> 0, err |-> e] :
            e \in {ErrUserAborted, <<"huh: run">> \o ErrUserAborted, <<"could not open a new TTY">>}}

\* PromptChoice, after the form has run
promptChoiceResult(out) ==
    IF out.err # Nil
    THEN IF errorsIs(out.err, ErrUserAborted)
         THEN [value |-> 0, err |-> <<"canceled by user">>]
         ELSE [value |-> 0, err |-> <<"prompt choice">> \o out.err]
    ELSE [value |-> out.selected, err |-> Nil]

\* HuhPrompter.PromptChoice(prompt, options)
PromptChoice ==
    /\ authCall = NoCall
    /\ authCall' = [fn |-> "PromptChoice", provider |-> ""]
    /\ IF Len(authIn) = 0
       THEN /\ authRet' = [value |-> 0, err |-> <<"no options provided">>]
            /\ form' = form
       ELSE \E out \in huhRunOutcomes(huhOptions(authIn)) :
            /\ form' = [shown |-> TRUE, options |-> huhOptions(authIn),
                        picked |-> out.picked, err |-> out.err]
            /\ authRet' = promptChoiceResult(out)
    /\ UNCHANGED <<pc, backend, newVars, storeVars, fs, authIn, gen, lastStored>>

InitPrompt == InitAuth /\ authIn \in OptionLists(MaxOptions)

NextPrompt == PromptChoice

SpecPrompt == InitPrompt /\ [][NextPrompt]_vars

----------------------------------------------------------------------------
(* internal/names: GenerateUnique.  The word lists are cut to their first  *)
(* two words each; existsFn is the set of names it answers true for.       *)

adjectives == <<"agile", "bold">>

nouns == <<"badger", "bear">>

\* Generate(): any adjective, a dash, any noun
Generate ==
    {<<adjectives[a], "-", nouns[n]>> : a \in 1..Len(adjectives), n \in 1..Len(nouns)}

DefaultMaxAttempts == 100

MaxAttemptsArg == 2

ErrNoUniqueName == <<"failed to generate unique name after %d attempts">>

attemptLimitNegativeOnly(maxAttempts) ==
    IF maxAttempts < 0 THEN DefaultMaxAttempts ELSE maxAttempts

\* GenerateUnique, lines 75-77: the number of attempts the loop is given
attemptLimit(maxAttempts) ==
    IF maxAttempts <= 0 THEN DefaultMaxAttempts ELSE maxAttempts

namesVars == <<pc, backend, newVars, storeVars, fs, authIn, authCall, authRet, form,
               lastStored>>

\* GenerateUnique(existsFn, maxAttempts) is called
GenerateUniqueCall(existsFn, maxAttempts) ==
    /\ gen.pc = "idle"
    /\ gen' = [NoGen EXCEPT !.pc = "loop", !.exists = existsFn, !.arg = maxAttempts,
                            !.maxAttempts = attemptLimit(maxAttempts)]
    /\ UNCHANGED namesVars

\* one evaluation of the loop condition and, when it holds, one iteration; the
\* return after the loop when it does not
GenerateUniqueLoop ==
    /\ gen.pc = "loop"
    /\ IF gen.i < gen.maxAttempts
       THEN \E name \in Generate :
               gen' = IF name \notin gen.exists
                      THEN [gen EXCEPT !.pc = "done", !.calls = @ + 1, !.value = name]
                      ELSE [gen EXCEPT !.i = @ + 1, !.calls = @ + 1,
                                       !.rejected = @ \cup {name}]
       ELSE gen' = [gen EXCEPT !.pc = "done", !.err = ErrNoUniqueName]
    /\ UNCHANGED namesVars

InitNames == InitAuth /\ authIn = <<>>

NextNames ==
    \/ \E existsFn \in SUBSET Generate, maxAttempts \in (-1)..MaxAttemptsArg :
          GenerateUniqueCall(existsFn, maxAttempts)
    \/ GenerateUniqueLoop

SpecNames == InitNames /\ [][NextNames]_vars

\* the loop is not suspended for ever
SpecNamesFair == SpecNames /\ WF_vars(GenerateUniqueLoop)

----------------------------------------------------------------------------
(* internal/mux: the zellij multiplexer.  z.exec.Run is the environment: a  *)
(* run of "zellij list-sessions" is its result and its error.               *)

ErrSessionExists == <<"mux.ErrSessionExists">>

NoSession == [nil |-> TRUE, ID |-> <<>>, Name |-> <<>>]

\* strings.Contains
containsBytes(s, t) ==
    \E i \in 0..(Len(s) - Len(t)) : SubSeq(s, i + 1, i + Len(t)) = t

\* strings.Split(s, "\n"): the pieces between the line feeds, empty ones included
RECURSIVE splitNewlineFrom(_, _, _)
splitNewlineFrom(s, i, cur) ==
    IF i > Len(s) THEN <<cur>>
    ELSE IF s[i] = LF THEN <<cur>> \o splitNewlineFrom(s, i + 1, <<>>)
    ELSE splitNewlineFrom(s, i + 1, Append(cur, s[i]))

\* strings.IndexAny(line, " \t[("): the index of the first such byte, -1 if none
indexAny(line) ==
    LET hits == {i \in 1..Len(line) : line[i] \in {SP, 9, 91, 40}}
    IN  IF hits = {} THEN -1 ELSE (CHOOSE i \in hits : \A j \in hits : i <= j) - 1

\* ListSessions, lines 153-157: the session name of a trimmed line
sessionName(line) ==
    IF indexAny(line) > 0 THEN SubSeq(line, 1, indexAny(line)) ELSE line

\* ListSessions, lines 146-164: one Session for every line that is not blank
RECURSIVE parseSessions(_, _)
parseSessions(lines, i) ==
    IF i > Len(lines) THEN <<>>
    ELSE LET line == TrimSpace(lines[i])
         IN  (IF line = <<>> THEN <<>>
              ELSE <<[nil |-> FALSE, ID |-> sessionName(line), Name |-> sessionName(line)]>>)
             \o parseSessions(lines, i + 1)

\* ListSessions
ListSessions(run) ==
    IF run.err # Nil
    THEN IF containsBytes(run.Stderr, <<78, 111, 32, 97, 99, 116, 105, 118, 101>>) \/ run.ExitCode = 0
         THEN [sessions |-> <<>>, err |-> Nil]
         ELSE [sessions |-> <<>>, err |-> <<"list sessions">> \o run.err]
    ELSE IF TrimSpace(run.Stdout) = <<>>
         THEN [sessions |-> <<>>, err |-> Nil]
         ELSE [sessions |-> parseSessions(splitNewlineFrom(TrimSpace(run.Stdout), 1, <<>>), 1),
               err |-> Nil]

createSessionIgnoringListError(name, run) ==
    IF \E i \in 1..Len(ListSessions(run).sessions) : ListSessions(run).sessions[i].Name = name
    THEN [value |-> NoSession, err |-> ErrSessionExists]
    ELSE [value |-> [nil |-> FALSE, ID |-> name, Name |-> name], err |-> Nil]

\* CreateSession(ctx, opts) for opts.Name = name
createSession(name, run) ==
    LET ls == ListSessions(run)
    IN  IF ls.err # Nil
        THEN [value |-> NoSession, err |-> <<"check existing sessions">> \o ls.err]
        ELSE IF \E i \in 1..Len(ls.sessions) : ls.sessions[i].Name = name
        THEN [value |-> NoSession, err |-> ErrSessionExists]
        ELSE [value |-> [nil |-> FALSE, ID |-> name, Name |-> name], err |-> Nil]

CreateSession ==
    /\ authCall = NoCall
    /\ authCall' = [fn |-> "CreateSession", provider |-> ""]
    /\ authRet' = createSession(authIn.Name, authIn.run)
    /\ UNCHANGED <<pc, backend, newVars, storeVars, fs, authIn, form, gen, lastStored>>

\* requested names: plain ones, one with a blank inside, the empty one
SessionNames == {<<97>>, <<97, 98>>, <<97, 32, 98>>, <<>>}

\* what a line of the listing is made of
ListingParts == {<<97>>, <<97, 98>>, <<32, 91, 67, 93>>, <<32, 40, 99, 41>>, <<SP>>, <<9>>, <<LF>>, <<91>>}

MaxListingParts == 3

\* results of the run: a listing, or a failure with or without the "No active
\* sessions" message and with either exit code
RunResults ==
    {[Stdout |-> out, Stderr |-> <<>>, ExitCode |-> 0, err |-> Nil]
        : out \in Concats(ListingParts, MaxListingParts)}
    \cup {[Stdout |-> <<>>, Stderr |-> e, ExitCode |-> c, err |-> <<"exit status 1">>]
        : e \in {<<>>, <<122, 101, 108, 108, 105, 106, 32, 101, 114, 114, 111, 114>>, <<78, 111, 32, 97, 99, 116, 105, 118, 101, 32, 122, 101, 108, 108, 105, 106, 32, 115, 101, 115, 115, 105, 111, 110, 115, 32, 102, 111, 117, 110, 100, 46>>}, c \in {0, 1}}

InitMux == InitAuth /\ authIn \in [Name : SessionNames, run : RunResults]

NextMux == CreateSession

SpecMux == InitMux /\ [][NextMux]_vars

----------------------------------------------------------------------------
(* Properties of the opened store (checked under Spec)                     *)

acct == lastOp.account

BackendFailed == ringErr \in FaultErrors

\* C1: round trip. A Get of an account whose last successful Set stored the
\* non-empty secret s, with no successful Delete since, returns exactly s and
\* no error, whatever was done to the other accounts in between; the only
\* other outcome is a failure of the backend read itself, which comes back
\* as that failure and never as a different secret.
C1_RoundTrip ==
    (lastOp.op = "Get" /\ expect[acct].live /\ expect[acct].secret # <<>>) =>
        IF BackendFailed
        THEN res = [value |-> <<>>, err |-> ringErr]
        ELSE res = [value |-> expect[acct].secret, err |-> Nil]

\* a Get returned a stored non-empty secret while another account held one too
C1_Witness ==
    /\ lastOp.op = "Get"
    /\ acct = "claude-credential"
    /\ expect[acct] = Live(<<97, 97>>)
    /\ expect["gemini-credential"] = Live(<<97>>)
    /\ res = [value |-> <<97, 97>>, err |-> Nil]

\* C2: Set overwrites. The backend never holds more than one item per account,
\* every item is the one of the most recent successful Set on its account, a
\* Get that the backend answers returns that value, and after a successful
\* Delete the account has no item left, so a Get answers NotFound.
C2_Overwrite ==
    /\ \A a \in Accounts : Cardinality({i \in ring : i.Key = a}) <= 1
    /\ \A i \in ring : i.Key \in Accounts /\ expect[i.Key] = Live(i.Data)
    /\ \A a \in Accounts : ~expect[a].live => ~\E i \in ring : i.Key = a
    /\ (lastOp.op = "Get" /\ ~BackendFailed) =>
          res = IF expect[acct].live
                THEN [value |-> expect[acct].secret, err |-> Nil]
                ELSE [value |-> <<>>, err |-> ErrNotFound]

\* a second Set replaced a different value and the backend holds only the new one
C2_Witness ==
    /\ lastOp.op = "Set"
    /\ lastOp.had
    /\ lastOp.prev = <<97>>
    /\ lastOp.secret = <<97, 97>>
    /\ res.err = Nil
    /\ {i.Data : i \in {j \in ring : j.Key = acct}} = {<<97, 97>>}

\* C3: Delete is idempotent. A Delete fails only when the backend fails with
\* something other than not-found, and then returns that error unchanged; a
\* typed (possibly wrapped) key-not-found and a file-does-not-exist error both
\* become success, so deleting an account that holds nothing succeeds.
C3_DeleteIdempotent ==
    lastOp.op = "Delete" =>
        /\ (ringErr = Nil \/ errorsIs(ringErr, ErrKeyNotFound) \/ ringErr = PathErrorNotExist)
              => res.err = Nil
        /\ BackendFailed => res.err = ringErr
        /\ (~lastOp.had /\ ~BackendFailed) => res.err = Nil
        /\ res.err = Nil => ~\E i \in ring : i.Key = acct

\* a Delete of an account holding nothing got the file backend's not-exist
\* error and returned success
C3_Witness ==
    /\ lastOp.op = "Delete"
    /\ ~lastOp.had
    /\ ringErr = PathErrorNotExist
    /\ res.err = Nil

\* C4: Get answers ErrNotFound exactly when the account has no live entry
\* (never set, or deleted since); a backend failure is returned unchanged,
\* never as ErrNotFound and never as a successful empty secret.
C4_GetNotFound ==
    lastOp.op = "Get" =>
        /\ res.err = ErrNotFound <=> (~expect[acct].live /\ ~BackendFailed)
        /\ res.err = ErrNotFound => ~\E i \in ring : i.Key = acct
        /\ BackendFailed => res = [value |-> <<>>, err |-> ringErr]
        /\ res = [value |-> <<>>, err |-> Nil] => expect[acct] = Live(<<>>)

\* a Get of an account without entry answered ErrNotFound for a wrapped
\* key-not-found of the backend
C4_Witness ==
    /\ lastOp.op = "Get"
    /\ ~expect[acct].live
    /\ ringErr = WrappedKeyNotFound
    /\ res = [value |-> <<>>, err |-> ErrNotFound]

----------------------------------------------------------------------------
\* what Get(account) can return on a backend holding r
GetAnswers(r, account) ==
    {GetResult(out.item, out.err) : out \in ringGetOutcomes(r, account)}

----------------------------------------------------------------------------
(* Properties of construction and password resolution (checked under       *)
(* SpecNew)                                                                *)

Constructed == pc # "init"

\* C6: backend precedence. A non-empty HEADJACK_KEYRING_BACKEND names the
\* backend that is opened, whatever Config.Backend says; without it the
\* caller's non-Auto choice is opened, and the detected backend otherwise.
C6_BackendPrecedence ==
    Constructed =>
        LET want == IF env.backend # "" THEN env.backend
                    ELSE IF cfg.Backend # BackendAuto THEN cfg.Backend
                    ELSE detected
        IN  /\ backend = want
            /\ \A i \in 1..Len(openAttempts) : openAttempts[i] = <<want>>
            /\ pc \in {"open", "asked"} => config.AllowedBackends = <<want>>

\* the variable overrode an explicit non-Auto choice and that backend was opened
C6_Witness ==
    /\ pc = "open"
    /\ env.backend = "file"
    /\ cfg.Backend = "keyctl"
    /\ config.AllowedBackends = <<"file">>

SessionBusReachable ==
    \/ env.dbusAddr # ""
    \/ env.xdgRuntimeDir # "" /\ env.busStatOK

\* C7: auto-detection maps darwin to the platform keychain, windows to the
\* credential manager, linux to secret-service when the session bus appears
\* reachable and to the kernel keyring otherwise, any other platform to the
\* encrypted file; the result is one of the five backends, never Auto.
C7_AutoDetect ==
    detected # NotCalled =>
        /\ env.goos = "darwin"  => detected = "keychain"
        /\ env.goos = "windows" => detected = "wincred"
        /\ (env.goos = "linux" /\ SessionBusReachable)  => detected = "secret-service"
        /\ (env.goos = "linux" /\ ~SessionBusReachable) => detected = "keyctl"
        /\ env.goos \notin {"darwin", "windows", "linux"} => detected = "file"
        /\ detected \in Backends
        /\ detected # BackendAuto

\* detection ran on linux without a reachable session bus
C7_Witness ==
    /\ cfg.Backend = BackendAuto
    /\ env.goos = "linux"
    /\ env.dbusAddr = ""
    /\ env.xdgRuntimeDir # ""
    /\ ~env.busStatOK
    /\ detected = "keyctl"

\* C8: a password function supplied in the configuration is the only source of
\* the file backend's password: the password variable is not read, nothing is
\* prompted, and its error is the outcome.
C8_CallerPasswordFunc ==
    (pwCall.called /\ cfg.PasswordFunc # "nil") =>
        /\ ~pwCall.envRead
        /\ pwCall.prompt = "none"
        /\ cfg.PasswordFunc = "callerError" =>
              (pwCall.value = "" /\ pwCall.err = <<"caller error">>)
        /\ cfg.PasswordFunc = "callerPassword" =>
              (pwCall.value = "caller-password" /\ pwCall.err = Nil)

\* the caller's function failed although the variable was set and stdin was a
\* terminal
C8_Witness ==
    /\ pwCall.called
    /\ cfg.PasswordFunc = "callerError"
    /\ env.password # ""
    /\ env.stdinTerminal
    /\ pwCall.err = <<"caller error">>

\* C9: default password resolution. A non-empty HEADJACK_KEYRING_PASSWORD is
\* returned without prompting, terminal or not; without it a terminal is
\* prompted without echo; without it and without a terminal the result is
\* ErrNoPassword, never an empty password with no error.
C9_DefaultPassword ==
    (pwCall.called /\ cfg.PasswordFunc = "nil") =>
        /\ env.password # "" =>
              /\ pwCall.value = env.password
              /\ pwCall.err = Nil
              /\ pwCall.prompt = "none"
        /\ (env.password = "" /\ env.stdinTerminal) => pwCall.prompt = "ReadPassword"
        /\ (env.password = "" /\ ~env.stdinTerminal) =>
              /\ pwCall.err = ErrNoPassword
              /\ pwCall.value = ""
              /\ pwCall.prompt = "none"

\* the variable was used although stdin was a terminal
C9_Witness ==
    /\ pwCall.called
    /\ cfg.PasswordFunc = "nil"
    /\ env.password = "env-password"
    /\ env.stdinTerminal
    /\ pwCall.value = "env-password"
    /\ pwCall.prompt = "none"

\* C10: construction opens the chosen backend and nothing else. keyring.Open
\* is called at most once, with the chosen backend alone, and exactly once when
\* openKeyring gets as far as opening; a failed open fails NewWithConfig with an
\* error and no store; a value of the override variable that names no backend
\* reaches keyring.Open as it is and fails there.
C10_NoFallback ==
    Constructed =>
        /\ Len(openAttempts) <= 1
        /\ \A i \in 1..Len(openAttempts) : openAttempts[i] = <<backend>>
        /\ (cfg.FileDir # "" \/ env.homeOK) => Len(openAttempts) = 1
        /\ pc = "failed" <=> newErr # Nil
        /\ pc = "failed" => errorsIs(newErr, <<"open keyring">>)
        /\ (env.backend # "" /\ env.backend \notin Backends) =>
              /\ pc = "failed"
              /\ openAttempts # <<>> =>
                    (openAttempts = <<<<env.backend>>>> /\ errorsIs(newErr, ErrNoAvailImpl))

\* an unknown value of the override variable was handed to keyring.Open and
\* construction failed
C10_Witness ==
    /\ pc = "failed"
    /\ env.backend = "no-such-backend"
    /\ cfg.Backend = "file"
    /\ openAttempts = <<<<"no-such-backend">>>>
    /\ errorsIs(newErr, ErrNoAvailImpl)

----------------------------------------------------------------------------
\* C23: on Linux the session bus counts as reachable exactly when
\* DBUS_SESSION_BUS_ADDRESS is non-empty, or XDG_RUNTIME_DIR is non-empty and
\* its "bus" entry can be stat-ed; auto-detection answers secret-service when
\* it is reachable and the kernel keyring otherwise, never the encrypted file.
C23_LinuxDetection ==
    (detected # NotCalled /\ env.goos = "linux") =>
        LET reachable == \/ env.dbusAddr # ""
                         \/ env.xdgRuntimeDir # "" /\ env.busStatOK
        IN  /\ isSecretServiceAvailable(env) <=> reachable
            /\ detected = IF reachable THEN "secret-service" ELSE "keyctl"
            /\ detected # "file"

\* detection found the bus socket under XDG_RUNTIME_DIR, with no bus address set
C23_Witness ==
    /\ cfg.Backend = BackendAuto
    /\ env.goos = "linux"
    /\ env.dbusAddr = ""
    /\ env.xdgRuntimeDir # ""
    /\ env.busStatOK
    /\ detected = "secret-service"

HomeDirError == <<"get home directory">>

\* C25: the storage directory concerns the file backend only. With a non-empty
\* FileDir the home directory plays no part and the directory is FileDir; with
\* an empty one the directory is <home>/.config/headjack; and construction on
\* a backend other than the file backend never fails over the home directory.
C25_StorageDirectory ==
    Constructed =>
        /\ cfg.FileDir # "" =>
              /\ ~errorsIs(newErr, HomeDirError)
              /\ pc \in {"open", "asked"} => config.FileDir = cfg.FileDir
        /\ (cfg.FileDir = "" /\ pc \in {"open", "asked"}) => config.FileDir = defaultFileDir
        /\ backend # "file" => ~errorsIs(newErr, HomeDirError)

----------------------------------------------------------------------------
(* Properties of the file-backed store (checked under SpecFile)            *)

\* C24: the file backend's password is resolved lazily. Construction never
\* calls the password function and never fails for want of a password. A
\* Delete, or a Get of an account with no entry, does not call it either. A
\* Set, or a Get of an existing entry, on a backend that holds no password gets
\* ErrNoPassword from the default function when neither the variable nor a
\* terminal is there; and an operation whose password request ends in
\* ErrNoPassword returns that error and leaves every entry as it was.
C24_LazyPassword ==
    [][/\ pc = "init" =>
            /\ pwCall' = NoPwCall
            /\ ~errorsIs(newErr', ErrNoPassword)
       /\ pc = "open" =>
            LET needs == \/ lastOp'.op = "Set"
                         \/ lastOp'.op = "Get" /\ lastOp'.had
            IN  /\ ~needs => pwCall' = pwCall
                /\ (needs /\ pwCall'.err = ErrNoPassword) =>
                      /\ res'.err = ErrNoPassword
                      /\ ring' = ring
                /\ (/\ needs
                    /\ ~filePasswordCached(pwCall)
                    /\ cfg.PasswordFunc = "nil"
                    /\ env.password = ""
                    /\ ~env.stdinTerminal) => pwCall'.err = ErrNoPassword
      ]_vars

\* a file-backed store was constructed with no password source at all, and its
\* first Set came back with ErrNoPassword
C24_Witness ==
    /\ pc = "open"
    /\ backend = "file"
    /\ cfg.PasswordFunc = "nil"
    /\ env.password = ""
    /\ ~env.stdinTerminal
    /\ lastOp.op = "Set"
    /\ pwCall.err = ErrNoPassword
    /\ res.err = ErrNoPassword
    /\ ring = {}

----------------------------------------------------------------------------
(* Properties of the string functions (checked under SpecText)             *)

AsciiLetter(b) == b \in (65..90) \cup (97..122)

\* position i of s is read in escape mode: an escape byte before it has not
\* been followed by a letter yet
InEscapeAt(s, i) ==
    \E j \in 1..(i - 1) :
        s[j] = ESC /\ \A k \in (j + 1)..(i - 1) : ~AsciiLetter(s[k])

\* the bytes of s from position i on that are outside escape mode and are not
\* the escape byte, in order
RECURSIVE KeptFrom(_, _)
KeptFrom(s, i) ==
    IF i > Len(s) THEN <<>>
    ELSE (IF s[i] # ESC /\ ~InEscapeAt(s, i) THEN <<s[i]>> ELSE <<>>)
         \o KeptFrom(s, i + 1)

\* C17: stripANSI copies, in order, exactly the bytes read outside escape mode
\* that are not 0x1B; 0x1B enters escape mode, the first ASCII letter ends it
\* and is dropped with all bytes in between. So input without 0x1B is returned
\* unchanged, "\x1b[31msk-ant-abc123\x1b[0m" gives "sk-ant-abc123", and
\* everything from an unterminated escape byte on is dropped.
C17_StripScanner ==
    authCall.fn = "stripANSI" =>
        /\ authRet.value = KeptFrom(authIn, 1)
        /\ (\A i \in 1..Len(authIn) : authIn[i] # ESC) => authRet.value = authIn
        /\ authIn = ColouredToken => authRet.value = PlainToken
        /\ \A j \in 1..Len(authIn) :
              (authIn[j] = ESC /\ \A k \in (j + 1)..Len(authIn) : ~AsciiLetter(authIn[k]))
                 => authRet.value = KeptFrom(SubSeq(authIn, 1, j - 1), 1)

\* the coloured token was stripped to the bare token
C17_Witness ==
    /\ authCall.fn = "stripANSI"
    /\ authIn = ColouredToken
    /\ authRet.value = PlainToken

\* a[i..] can be had from b[j..] by deleting bytes
RECURSIVE SubsequenceFrom(_, _, _, _)
SubsequenceFrom(a, i, b, j) ==
    IF i > Len(a) THEN TRUE
    ELSE IF j > Len(b) THEN FALSE
    ELSE IF a[i] = b[j] THEN SubsequenceFrom(a, i + 1, b, j + 1)
    ELSE SubsequenceFrom(a, i, b, j + 1)

\* C28: for every input the output of stripANSI holds no 0x1B byte, is a
\* subsequence of the input (nothing added, nothing reordered), and is left
\* unchanged by a second stripANSI.
C28_StripProperties ==
    authCall.fn = "stripANSI" =>
        /\ \A i \in 1..Len(authRet.value) : authRet.value[i] # ESC
        /\ SubsequenceFrom(authRet.value, 1, authIn, 1)
        /\ stripANSI(authRet.value) = authRet.value

\* an escape sequence was removed and the byte after it kept
C28_Witness ==
    /\ authCall.fn = "stripANSI"
    /\ authIn = <<ESC, 91, 109, 65>>
    /\ authRet.value = <<65>>

\* the first line of lines, from index i, whose cleaned form carries the token
\* prefix, cleaned and trimmed; empty when there is none
RECURSIVE FirstClean(_, _, _)
FirstClean(lines, i, stripFirst) ==
    IF i > Len(lines) THEN <<>>
    ELSE LET clean == IF stripFirst
                      THEN TrimSpace(KeptFrom(lines[i], 1))
                      ELSE KeptFrom(TrimSpace(lines[i]), 1)
         IN  IF HasPrefix(clean, claudeTokenPrefix) THEN TrimSpace(clean)
             ELSE FirstClean(lines, i + 1, stripFirst)

\* C18: extractToken returns the first line, split on CR and LF, that starts
\* with "sk-ant-" after ANSI stripping and whitespace trimming (in either
\* order), as that line's trimmed content: no ANSI bytes, no leading or
\* trailing whitespace; it returns the empty string when no line matches.
C18_ExtractToken ==
    authCall.fn = "extractToken" =>
        /\ authRet.value \in {FirstClean(splitLines(authIn), 1, TRUE),
                              FirstClean(splitLines(authIn), 1, FALSE)}
        /\ \A i \in 1..Len(authRet.value) : authRet.value[i] # ESC
        /\ TrimSpace(authRet.value) = authRet.value

\* a line carries the token prefix: rid of its escape sequences and of the
\* white space around it, in either order, it starts with "sk-ant-"
CarriesPrefix(line) ==
    \/ HasPrefix(KeptFrom(TrimSpace(line), 1), claudeTokenPrefix)
    \/ HasPrefix(TrimSpace(KeptFrom(line, 1)), claudeTokenPrefix)

\* C30: the empty result is extractToken's only "not found". Every non-empty
\* result starts with "sk-ant-" and is accepted by Claude's
\* ValidateSubscription, and an output none of whose lines carries the prefix
\* gives the empty result.
C30_EmptyIsNotFound ==
    authCall.fn = "extractToken" =>
        /\ authRet.value # <<>> =>
              /\ HasPrefix(authRet.value, claudeTokenPrefix)
              /\ ClaudeValidateSubscription(authRet.value) = Nil
        /\ (\A i \in 1..Len(splitLines(authIn)) : ~CarriesPrefix(splitLines(authIn)[i]))
              => authRet.value = <<>>

\* the token of the second line was returned, the first line holding none
C30_Witness ==
    /\ authCall.fn = "extractToken"
    /\ authIn = <<120, CR, LF>> \o OtherToken \o <<CR>>
    /\ authRet.value = OtherToken

----------------------------------------------------------------------------
(* Properties of the validators (checked under SpecValidate)               *)

Blank(s) == \A i \in 1..Len(s) : s[i] \in {9, 10, 11, 12, 13, 32}

EmptyCredentialErrors == {ErrEmptyToken, ErrEmptyAPIKey, ErrEmptyCredentials}

\* C11: for each of the three providers, ValidateAPIKey and
\* ValidateSubscription answer an input that is empty or only white space
\* with the empty-credential error: never with a format error, never with
\* acceptance.
C11_BlankRejected ==
    (authCall.fn \in {"ValidateAPIKey", "ValidateSubscription"} /\ Blank(authIn)) =>
        authRet.err \in EmptyCredentialErrors

\* Codex ValidateAPIKey answered a blank input of two bytes
C11_Witness ==
    /\ authCall = [fn |-> "ValidateAPIKey", provider |-> "codex"]
    /\ authIn = <<SP, 9>>
    /\ authRet.err = ErrEmptyAPIKey

StartsWith(v, q) == Len(v) >= Len(q) /\ \A i \in 1..Len(q) : v[i] = q[i]

APIKeyPrefix ==
    [claude |-> <<115, 107, 45, 97, 110, 116, 45, 97, 112, 105>>, codex |-> <<115, 107, 45>>, gemini |-> <<65, 73, 122, 97>>]

APIKeyFormatError ==
    [claude |-> ErrClaudeAPIKeyFormat, codex |-> ErrCodexAPIKeyFormat, gemini |-> ErrGeminiAPIKeyFormat]

\* C12: ValidateAPIKey accepts a non-blank input exactly when its trimmed
\* value starts, byte for byte, with the provider's prefix ("sk-ant-api",
\* "sk-", "AIza"); every other non-blank input, one that differs in letter
\* case or lacks one byte of the prefix included, gets the provider's
\* invalid-format error, and what follows the prefix does not matter.
C12_PrefixExact ==
    (authCall.fn = "ValidateAPIKey" /\ ~Blank(authIn)) =>
        authRet.err = IF StartsWith(TrimSpace(authIn), APIKeyPrefix[authCall.provider])
                      THEN Nil
                      ELSE APIKeyFormatError[authCall.provider]

\* Gemini ValidateAPIKey rejected "AIzAx", the prefix with its last letter in
\* the other case
C12_Witness ==
    /\ authCall = [fn |-> "ValidateAPIKey", provider |-> "gemini"]
    /\ authIn = <<65, 73, 122, 65, 120>>
    /\ authRet.err = ErrGeminiAPIKeyFormat

\* the members of an object whose key names the field, exactly or ignoring case
Named(members, name) ==
    {i \in 1..Len(members) : foldName(members[i].key) = foldName(name)}

Last(set) == CHOOSE i \in set : \A j \in set : j <= i

\* the text is an object whose refresh_token members are all strings or
\* nulls, the last string among them non-empty
CarriesRefreshToken(raw) ==
    LET v == parseJSON(raw)
        named == IF v.ok THEN Named(v.members, <<114, 101, 102, 114, 101, 115, 104, 95, 116, 111, 107, 101, 110>>) ELSE {}
        strings == {i \in named : v.members[i].kind = "string"}
    IN  /\ v.ok /\ v.kind = "object"
        /\ \A i \in named : v.members[i].kind \in {"string", "null"}
        /\ strings # {}
        /\ v.members[Last(strings)].str # <<>>

GeminiFormatErrors ==
    {<<"invalid JSON format">> \o SyntaxError, <<"invalid JSON format">> \o UnmarshalTypeError,
     ErrMissingOAuthCreds, ErrMissingGoogleAccounts,
     <<"parse oauth_creds">> \o UnmarshalTypeError, ErrMissingRefreshToken}

GeminiValidated == authCall = [fn |-> "ValidateSubscription", provider |-> "gemini"] /\ ~Blank(authIn)

\* C15: Gemini ValidateSubscription accepts a non-blank value exactly when it
\* parses as JSON, holds both an oauth_creds and a google_accounts
\* sub-document (a member that is there and is not null), and oauth_creds
\* carries a non-empty refresh_token; otherwise the result is an
\* invalid-format error.
C15_BothSubObjects ==
    GeminiValidated =>
        LET v == parseJSON(TrimSpace(authIn))
            oauth == IF v.ok THEN Named(v.members, <<111, 97, 117, 116, 104, 95, 99, 114, 101, 100, 115>>) ELSE {}
            accounts == IF v.ok THEN Named(v.members, <<103, 111, 111, 103, 108, 101, 95, 97, 99, 99, 111, 117, 110, 116, 115>>) ELSE {}
        IN  IF /\ v.ok /\ v.kind = "object"
               /\ oauth # {} /\ v.members[Last(oauth)].kind # "null"
               /\ accounts # {} /\ v.members[Last(accounts)].kind # "null"
               /\ CarriesRefreshToken(v.members[Last(oauth)].raw)
            THEN authRet.err = Nil
            ELSE authRet.err \in GeminiFormatErrors
----------------------------------------------------------------------------
(* Properties of CheckSubscription (checked under SpecHarvest)             *)

\* the parts of an error's message
Parts(err) == {err[i] : i \in 1..Len(err)}

Harvested(p) == authCall = [fn |-> "CheckSubscription", provider |-> p]

authFile == fs["auth.json"]

\* the first byte that is not white space is '{'
OpensObject(data) ==
    \E i \in 1..Len(data) :
        data[i] = 123 /\ \A j \in 1..(i - 1) : data[j] \in {9, 10, 11, 12, 13, 32}

\* C13 as stated: Codex CheckSubscription fails with the not-authenticated
\* error carrying the 'codex login' remediation when auth.json is missing,
\* fails with the corrupt-credential error when the file has zero bytes, and
\* otherwise returns the file's bytes verbatim; ValidateSubscription rejects
\* that same content unless it begins with '{'.
C13_RejectsUnlessBrace ==
    Harvested("codex") =>
        /\ authFile.state = "missing" =>
              authRet.value = <<>> /\ "1. Run: codex login" \in Parts(authRet.err)
        /\ (authFile.state = "present" /\ authFile.data = <<>>) =>
              authRet = [value |-> <<>>, err |-> ErrCodexEmpty]
        /\ (authFile.state = "present" /\ authFile.data # <<>>) =>
              /\ authRet = [value |-> authFile.data, err |-> Nil]
              /\ CodexValidateSubscription(authRet.value) = Nil <=> authFile.data[1] = 123

\* C13, amended: Codex CheckSubscription fails with the not-authenticated
\* error carrying the 'codex login' remediation when auth.json is missing,
\* with a read error when the file cannot be read, with the
\* corrupt-credential error when it has zero bytes, and otherwise returns the
\* file's bytes verbatim; ValidateSubscription accepts that same content
\* exactly when its first byte after leading white space is '{', and rejects
\* it otherwise.
C13_CodexHarvest ==
    Harvested("codex") =>
        /\ authFile.state = "missing" =>
              authRet.value = <<>> /\ "1. Run: codex login" \in Parts(authRet.err)
        /\ authFile.state = "unreadable" =>
              authRet = [value |-> <<>>, err |-> <<"read auth.json">> \o PathErrorAccess]
        /\ (authFile.state = "present" /\ authFile.data = <<>>) =>
              authRet = [value |-> <<>>, err |-> ErrCodexEmpty]
        /\ (authFile.state = "present" /\ authFile.data # <<>>) =>
              /\ authRet = [value |-> authFile.data, err |-> Nil]
              /\ CodexValidateSubscription(authRet.value) = Nil <=> OpensObject(authFile.data)

\* a file that is not JSON and starts with a line break was harvested as it
\* is, and the validator accepts it
C13_Witness ==
    /\ Harvested("codex")
    /\ authFile = Present(<<10, 123, 120>>)
    /\ authRet = [value |-> <<10, 123, 120>>, err |-> Nil]
    /\ CodexValidateSubscription(authRet.value) = Nil

oauthFile == fs["oauth_creds.json"]

accountsFile == fs["google_accounts.json"]

\* oauth_creds.json is there and carries a non-empty refresh token
OAuthFileValid == oauthFile.state = "present" /\ CarriesRefreshToken(oauthFile.data)

Contains(s, t) ==
    \E i \in 0..(Len(s) - Len(t)) : SubSeq(s, i + 1, i + Len(t)) = t

\* the first failure of the Gemini harvest, in the order of the checks
GeminiHarvestOrder ==
    /\ oauthFile.state = "missing" =>
          authRet.value = <<>> /\ "1. Run: gemini" \in Parts(authRet.err)
    /\ (oauthFile.state = "present" /\ ~OAuthFileValid) =>
          /\ authRet.value = <<>>
          /\ \/ authRet.err = ErrGeminiNoRefreshToken
             \/ authRet.err \in {<<"parse oauth_creds.json">> \o e : e \in {SyntaxError, UnmarshalTypeError}}
    /\ (OAuthFileValid /\ accountsFile.state = "missing") =>
          authRet = [value |-> <<>>, err |-> ErrGoogleAccountsNotFound]

InsideString(s, i) == Cardinality({j \in 1..(i - 1) : s[j] = 34}) % 2 = 1

\* the text without the white space between its tokens
RECURSIVE Squeezed(_, _)
Squeezed(s, i) ==
    IF i > Len(s) THEN <<>>
    ELSE (IF s[i] \in {9, 10, 13, 32} /\ ~InsideString(s, i) THEN <<>> ELSE <<s[i]>>)
         \o Squeezed(s, i + 1)

C29_HarvestValidates ==
    (Harvested("gemini") /\ authRet.err = Nil) =>
        GeminiValidateSubscription(authRet.value) = Nil

\* google_accounts.json held the text null and the harvest succeeded
C29_Witness ==
    /\ Harvested("gemini")
    /\ authRet.err = Nil
    /\ accountsFile = Present(<<110, 117, 108, 108>>)
    /\ GeminiValidateSubscription(authRet.value) = Nil

\* C16: Claude CheckSubscription fails on every call, whatever the files and
\* the stored credentials are: it returns the empty value and the
\* manual-entry error whose message names 'claude setup-token'.
C16_ClaudeManualOnly ==
    Harvested("claude") =>
        /\ authRet.value = <<>>
        /\ authRet.err # Nil
        /\ "Claude subscription credentials must be entered manually." \in Parts(authRet.err)
        /\ "1. Run: claude setup-token" \in Parts(authRet.err)

\* the call failed although every credential file was in place and the store
\* held a Claude credential
C16_Witness ==
    /\ Harvested("claude")
    /\ authFile = Present(<<123, 34, 116, 111, 107, 101, 110, 115, 34, 58, 123, 34, 105, 100, 95, 116, 111, 107, 101, 110, 34, 58, 34, 116, 34, 125, 125>>)
    /\ OAuthFileValid
    /\ accountsFile = Present(<<123, 34, 97, 99, 116, 105, 118, 101, 34, 58, 34, 117, 34, 125>>)
    /\ \E i \in ring : i.Key = "claude-credential"
    /\ authRet = [value |-> <<>>, err |-> ErrClaudeManual]

----------------------------------------------------------------------------
(* Properties of Store and Load (checked under SpecProviders)              *)

FixedAccount ==
    [claude |-> "claude-credential", gemini |-> "gemini-credential", codex |-> "codex-credential"]

\* C19: a provider's Store and Load call the store only for that provider's
\* own account (claude-credential, gemini-credential, codex-credential); a
\* Load for an account that was never stored, or whose entry was deleted,
\* returns the store's not-found error itself, and a Load that fails for
\* another reason returns a different error.
C19_OwnAccount ==
    authCall.fn \in {"Store", "Load"} =>
        /\ lastOp.account = FixedAccount[authCall.provider]
        /\ \A i \in 1..Len(ringCalls) : ringCalls[i].key = FixedAccount[authCall.provider]
        /\ authCall.fn = "Load" =>
              IF BackendFailed
              THEN authRet.err = ringErr /\ ~errorsIs(authRet.err, ErrNotFound)
              ELSE IF expect[FixedAccount[authCall.provider]].live
                   THEN authRet.err = Nil
                   ELSE authRet.err = ErrNotFound

\* Gemini's Load found nothing after its entry was deleted, while Claude's
\* credential was still stored
C19_Witness ==
    /\ authCall = [fn |-> "Load", provider |-> "gemini"]
    /\ ringCalls = <<[fn |-> "Get", key |-> "gemini-credential"]>>
    /\ authRet.err = ErrNotFound
    /\ expect["claude-credential"].live
    /\ lastOp.op = "Get"
    /\ ~\E i \in ring : i.Key = "gemini-credential"

\* C27: the three providers' account names are pairwise distinct, so on one
\* shared store a provider's Load returns the credential of that provider's
\* own last successful Store, whatever the other providers stored since; the
\* only other outcome is a failure of the backend read itself.
C27_ProviderIsolation ==
    /\ \A p, q \in ProviderNames : p # q => KeychainAccount[p] # KeychainAccount[q]
    /\ (authCall.fn = "Load" /\ lastStored[authCall.provider] # <<>>) =>
          IF BackendFailed
          THEN authRet.err = ringErr
          ELSE /\ authRet.err = Nil
               /\ authRet.value = lastStored[authCall.provider][1]

\* codex loaded its subscription credential while claude and gemini each held
\* an API key
C27_Witness ==
    /\ authCall = [fn |-> "Load", provider |-> "codex"]
    /\ lastStored["codex"] = <<[Type |-> "subscription", Value |-> <<97>>]>>
    /\ lastStored["gemini"] = <<[Type |-> "api_key", Value |-> <<97>>]>>
    /\ lastStored["claude"] = <<[Type |-> "api_key", Value |-> <<97>>]>>
    /\ authRet = [value |-> [Type |-> "subscription", Value |-> <<97>>], err |-> Nil]

----------------------------------------------------------------------------
(* Properties of the prompter (checked under SpecPrompt)                   *)

\* C20: PromptChoice with no options fails with an invalid-argument error
\* and shows no prompt; with options, success returns the index i,
\* 0 <= i < number of options, of the option the user picked, and an abort
\* returns the canceled error, never success.
C20_PromptChoice ==
    authCall.fn = "PromptChoice" =>
        /\ Len(authIn) = 0 =>
              ~form.shown /\ authRet.err = <<"no options provided">>
        /\ Len(authIn) > 0 =>
              /\ form.shown
              /\ [i \in 1..Len(form.options) |-> form.options[i].Key] = authIn
              /\ form.err = Nil =>
                    /\ authRet.err = Nil
                    /\ authRet.value >= 0 /\ authRet.value < Len(authIn)
                    /\ authRet.value + 1 = form.picked
              /\ errorsIs(form.err, ErrUserAborted) =>
                    authRet.err = <<"canceled by user">>
              /\ authRet.err = Nil => form.err = Nil

\* the user picked the last of three options and index 2 came back
C20_Witness ==
    /\ authCall.fn = "PromptChoice"
    /\ Len(authIn) = 3
    /\ form.picked = 3
    /\ authRet = [value |-> 2, err |-> Nil]
----------------------------------------------------------------------------
(* Properties of the name generator (checked under SpecNamesFair)          *)

\* the attempts the claim allows: maxAttempts, or 100 when it is not positive
AllowedAttempts == IF gen.arg <= 0 THEN 100 ELSE gen.arg

GenerateUniqueSafe ==
    gen.pc # "idle" =>
        /\ gen.calls <= AllowedAttempts
        /\ gen.rejected \subseteq gen.exists
        /\ (gen.pc = "done" /\ gen.err = Nil) =>
              /\ gen.value \in Generate
              /\ gen.value \notin gen.exists
              /\ gen.calls >= 1
        /\ (gen.pc = "done" /\ gen.err # Nil) =>
              /\ gen.value = <<>>
              /\ gen.calls = AllowedAttempts
              /\ gen.rejected # {}
        /\ (gen.pc = "done" /\ gen.exists = Generate) => gen.err # Nil

\* C21: GenerateUnique ends, after at most maxAttempts calls of Generate (100
\* when maxAttempts is not positive). It returns the first generated name that
\* existsFn does not know, so never a name existsFn knows; and when every name
\* it tried exists it returns an error and no name, having used every attempt.
C21_GenerateUnique ==
    /\ []GenerateUniqueSafe
    /\ (gen.pc = "loop") ~> (gen.pc = "done")

\* called with maxAttempts = 0 and every name taken, the call failed after a
\* hundred attempts
C21_Witness ==
    /\ gen.pc = "done"
    /\ gen.arg = 0
    /\ gen.exists = Generate
    /\ gen.calls = 100
    /\ gen.err = ErrNoUniqueName
    /\ gen.value = <<>>
----------------------------------------------------------------------------
(* Properties of the multiplexer (checked under SpecMux)                   *)

\* the names ListSessions reports for the run
ListedNames ==
    {ListSessions(authIn.run).sessions[i].Name : i \in 1..Len(ListSessions(authIn.run).sessions)}

\* a name with none of the bytes a listing line is cut at
PlainName(name) ==
    name # <<>> /\ \A i \in 1..Len(name) : name[i] \notin {SP, 9, 91, 40, LF, CR}

\* C22: CreateSession lists the sessions first. When the listing fails it fails
\* with 'check existing sessions' wrapping that failure; when a listed session
\* has the requested name it fails with ErrSessionExists; and it returns a
\* session, whose ID and Name are the requested name, only when the listing
\* succeeded and does not hold the name.
C22_CreateSession ==
    authCall.fn = "CreateSession" =>
        /\ ListSessions(authIn.run).err # Nil =>
              /\ authRet.value = NoSession
              /\ authRet.err = <<"check existing sessions">> \o ListSessions(authIn.run).err
        /\ (ListSessions(authIn.run).err = Nil /\ authIn.Name \in ListedNames) =>
              authRet = [value |-> NoSession, err |-> ErrSessionExists]
        /\ authRet.err = Nil <=>
              (ListSessions(authIn.run).err = Nil /\ authIn.Name \notin ListedNames)
        /\ authRet.err = Nil =>
              authRet.value = [nil |-> FALSE, ID |-> authIn.Name, Name |-> authIn.Name]
        /\ (/\ authIn.run.err = Nil
            /\ PlainName(authIn.Name)
            /\ \E i \in 1..Len(splitNewlineFrom(authIn.run.Stdout, 1, <<>>)) :
                  splitNewlineFrom(authIn.run.Stdout, 1, <<>>)[i] = authIn.Name)
              => authRet.err = ErrSessionExists

\* the listing held "ab [C] (c)" and session ab was asked for
C22_Witness ==
    /\ authCall.fn = "CreateSession"
    /\ authIn.Name = <<97, 98>>
    /\ authIn.run.Stdout = <<97, 98, 32, 91, 67, 93, 32, 40, 99, 41>>
    /\ authRet = [value |-> NoSession, err |-> ErrSessionExists]

====
